---- MODULE Spec2Model ----
(***************************************************************************)
(* Model of the timesheet application: the activity store of app.py        *)
(* (TimesheetManager) and the chat dialog of pdf_generator.py              *)
(* (TimesheetBot).  Texts are sequences of one-character strings, so the   *)
(* parsers and formatters of the code are modelled character by character. *)
(* Calendar dates are proleptic Gregorian ordinals, as in Python's         *)
(* datetime; a datetime is a record [ord, tod] (day ordinal, second of the *)
(* day).                                                                   *)
(***************************************************************************)
EXTENDS Integers, Sequences, FiniteSets, TLC

(***************************************************************************)
(* Characters and text helpers (str.lower, str.strip, int, str).           *)
(***************************************************************************)
Digits == <<"0","1","2","3","4","5","6","7","8","9">>

UpperLetters == <<"A","B","C","D","E","F","G","H","I","J","K","L","M",
                  "N","O","P","Q","R","S","T","U","V","W","X","Y","Z">>

LowerLetters == <<"a","b","c","d","e","f","g","h","i","j","k","l","m",
                  "n","o","p","q","r","s","t","u","v","w","x","y","z">>

IsDigit(c) == \E i \in 1..10 : Digits[i] = c

DigitVal(c) == (CHOOSE i \in 1..10 : Digits[i] = c) - 1

IsSpace(c) == c = " "

IsWordChar(c) ==
    \/ IsDigit(c)
    \/ c = "_"
    \/ \E i \in 1..26 : UpperLetters[i] = c \/ LowerLetters[i] = c

Lower(c) ==
    IF \E i \in 1..26 : UpperLetters[i] = c
    THEN LowerLetters[CHOOSE i \in 1..26 : UpperLetters[i] = c]
    ELSE c

LowerText(t) == [i \in 1..Len(t) |-> Lower(t[i])]

SetMin(S) == CHOOSE x \in S : \A y \in S : x <= y

SetMax(S) == CHOOSE x \in S : \A y \in S : y <= x

Strip(t) ==
    LET keep == {i \in 1..Len(t) : ~IsSpace(t[i])}
    IN  IF keep = {} THEN <<>> ELSE SubSeq(t, SetMin(keep), SetMax(keep))

AllDigits(s) == Len(s) > 0 /\ \A i \in 1..Len(s) : IsDigit(s[i])

RECURSIVE StrToNat(_)
StrToNat(s) ==
    IF s = <<>> THEN 0
    ELSE StrToNat(SubSeq(s, 1, Len(s) - 1)) * 10 + DigitVal(s[Len(s)])

RECURSIVE NatToStr(_)
NatToStr(n) ==
    IF n < 10 THEN <<Digits[n + 1]>>
    ELSE NatToStr(n \div 10) \o <<Digits[(n % 10) + 1]>>

Pad2(n) == <<Digits[(n \div 10) + 1], Digits[(n % 10) + 1]>>

Pad4(n) == Pad2(n \div 100) \o Pad2(n % 100)

\* t.split(sep) for a one-character separator
RECURSIVE SplitOn(_, _)
SplitOn(t, sep) ==
    LET hits == {i \in 1..Len(t) : t[i] = sep}
    IN  IF hits = {} THEN <<t>>
        ELSE LET i == SetMin(hits)
             IN  <<SubSeq(t, 1, i - 1)>> \o SplitOn(SubSeq(t, i + 1, Len(t)), sep)

\* str.split(): split on runs of whitespace, dropping empty fields
RECURSIVE SplitWs(_)
SplitWs(t) ==
    LET s == Strip(t)
        sp == {i \in 1..Len(s) : IsSpace(s[i])}
    IN  IF s = <<>> THEN <<>>
        ELSE IF sp = {} THEN <<s>>
        ELSE <<SubSeq(s, 1, SetMin(sp) - 1)>>
             \o SplitWs(SubSeq(s, SetMin(sp) + 1, Len(s)))

\* needle in haystack (substring test)
Contains(hay, needle) ==
    \E i \in 1..(Len(hay) - Len(needle) + 1) :
        SubSeq(hay, i, i + Len(needle) - 1) = needle

(***************************************************************************)
(* Calendar arithmetic of datetime: ordinals, weekday(), timedelta(days).  *)
(***************************************************************************)
IsLeap(y) == y % 4 = 0 /\ (y % 100 # 0 \/ y % 400 = 0)

DaysInMonth(y, m) ==
    IF m = 2 THEN (IF IsLeap(y) THEN 29 ELSE 28)
    ELSE IF m \in {4, 6, 9, 11} THEN 30 ELSE 31

DaysBeforeYear(y) ==
    (y - 1) * 365 + ((y - 1) \div 4) - ((y - 1) \div 100) + ((y - 1) \div 400)

\* the days of a common year before each month
DaysBeforeCommon == <<0, 31, 59, 90, 120, 151, 181, 212, 243, 273, 304, 334>>

DaysBeforeMonth(y, m) ==
    DaysBeforeCommon[m] + (IF m > 2 /\ IsLeap(y) THEN 1 ELSE 0)

Ymd2Ord(y, m, d) == DaysBeforeYear(y) + DaysBeforeMonth(y, m) + d

\* the year, month and day of an ordinal, as <<y, m, d>>
Ord2Ymd(n) ==
    LET n0   == n - 1
        n400 == n0 \div 146097
        r400 == n0 % 146097
        n100 == r400 \div 36524
        r100 == r400 % 36524
        n4   == r100 \div 1461
        r4   == r100 % 1461
        n1   == r4 \div 365
        r1   == r4 % 365
        y    == n400 * 400 + 1 + n100 * 100 + n4 * 4 + n1
    IN  IF n1 = 4 \/ n100 = 4 THEN <<y - 1, 12, 31>>
        ELSE LET guess == (r1 + 50) \div 32
                 m     == IF DaysBeforeMonth(y, guess) > r1 THEN guess - 1
                          ELSE guess
             IN  <<y, m, r1 - DaysBeforeMonth(y, m) + 1>>

\* datetime.weekday(): Monday is 0
Weekday(n) == (n + 6) % 7

\* a week that starts on Sunday: the offset of isoweekday() % 7 in place of
\* weekday()
SundayOf(n) == n - (n % 7)

\* monday = d - timedelta(days=d.weekday())
MondayOf(n) == n - Weekday(n)

(***************************************************************************)
(* strftime('%Y-%m-%d') and the strptime formats the code uses.  A parse   *)
(* returns <<ordinal>>, or << >> where strptime raises ValueError.         *)
(***************************************************************************)
StrfISO(n) ==
    LET ymd == Ord2Ymd(n)
    IN  Pad4(ymd[1]) \o <<"-">> \o Pad2(ymd[2]) \o <<"-">> \o Pad2(ymd[3])

\* %Y: four digits; 0 where the field does not match
YearField(s) == IF Len(s) = 4 /\ AllDigits(s) THEN StrToNat(s) ELSE 0

\* %m: 1[0-2], 0[1-9] or [1-9]; 0 where the field does not match
MonthField(s) ==
    IF Len(s) \in {1, 2} /\ AllDigits(s) /\ StrToNat(s) \in 1..12
    THEN StrToNat(s) ELSE 0

\* %d: 3[0-1], [1-2][0-9], 0[1-9], [1-9] or a space and [1-9]; 0 where the
\* field does not match
DayField(s) ==
    IF Len(s) \in {1, 2} /\ AllDigits(s) /\ StrToNat(s) \in 1..31
    THEN StrToNat(s)
    ELSE IF Len(s) = 2 /\ s[1] = " " /\ IsDigit(s[2]) /\ DigitVal(s[2]) > 0
    THEN DigitVal(s[2]) ELSE 0

\* datetime(y, m, d) out of matched fields: ValueError on an invalid date
DateOfFields(y, m, d) ==
    IF y >= 1 /\ m >= 1 /\ d >= 1 /\ d <= DaysInMonth(y, m)
    THEN <<Ymd2Ord(y, m, d)>> ELSE <<>>

\* datetime.strptime(t, '%Y-%m-%d')
StrpISO(t) ==
    LET f == SplitOn(t, "-")
    IN  IF Len(f) # 3 THEN <<>>
        ELSE DateOfFields(YearField(f[1]), MonthField(f[2]), DayField(f[3]))

\* datetime.strptime(t, '%m/%d/%Y')
StrpUS(t) ==
    LET f == SplitOn(t, "/")
    IN  IF Len(f) # 3 THEN <<>>
        ELSE DateOfFields(YearField(f[3]), MonthField(f[1]), DayField(f[2]))

(***************************************************************************)
(* Free-text parsing of hours (handle_message): the search for a number,   *)
(* optional whitespace and "hours", "hour" or "h" on the lower-cased text, *)
(* float() of the number, and the substitution that removes every          *)
(* <number><whitespace>hour[s] and every <number>h from the text.          *)
(* text.  Hours are held in hundredths of an hour.                         *)
(***************************************************************************)
\* last index of the run of digits that starts at i
DigitRunEnd(t, i) ==
    SetMax({j \in i..Len(t) : \A k \in i..j : IsDigit(t[k])})

\* last index of the match of a number (digits, an optional point, optional
\* digits) at i, 0 if there is none
NumberEnd(t, i) ==
    IF i > Len(t) \/ ~IsDigit(t[i]) THEN 0
    ELSE LET e1 == DigitRunEnd(t, i)
         IN  IF e1 < Len(t) /\ t[e1 + 1] = "."
             THEN IF e1 + 1 < Len(t) /\ IsDigit(t[e1 + 2])
                  THEN DigitRunEnd(t, e1 + 2) ELSE e1 + 1
             ELSE e1

\* first index at or after i that holds no whitespace (Len(t) + 1 if none)
SkipWs(t, i) ==
    SetMin({j \in i..(Len(t) + 1) : j > Len(t) \/ ~IsSpace(t[j])})

StartsAt(t, i, w) ==
    i + Len(w) - 1 <= Len(t) /\ SubSeq(t, i, i + Len(w) - 1) = w

\* does the hours pattern of the search match the lower-cased text at i
HoursMatchAt(tl, i) ==
    /\ NumberEnd(tl, i) > 0
    /\ StartsAt(tl, SkipWs(tl, NumberEnd(tl, i) + 1), <<"h">>)

\* float(s) of a matched number, in hundredths
FloatOf(s) ==
    LET f    == SplitOn(s, ".")
        frac == IF Len(f) > 1 THEN f[2] ELSE <<>>
    IN  StrToNat(f[1]) * 100
        + (IF Len(frac) = 0 THEN 0
           ELSE IF Len(frac) = 1 THEN StrToNat(frac) * 10
           ELSE StrToNat(SubSeq(frac, 1, 2)))

\* last index of the match of the substitution's pattern at i, 0 if there
\* is none; tl is the text lower-cased (the pattern ignores case)
SubMatchEnd(tl, i) ==
    LET e == NumberEnd(tl, i)
        j == SkipWs(tl, e + 1)
    IN  IF e = 0 THEN 0
        ELSE IF StartsAt(tl, j, <<"h","o","u","r">>)
        THEN (IF StartsAt(tl, j + 4, <<"s">>) THEN j + 4 ELSE j + 3)
        ELSE IF StartsAt(tl, e + 1, <<"h">>) THEN e + 1
        ELSE 0

\* re.sub(pattern, '', text): every leftmost non-overlapping match removed
RECURSIVE RemoveHours(_, _, _)
RemoveHours(t, tl, i) ==
    IF i > Len(t) THEN <<>>
    ELSE IF SubMatchEnd(tl, i) > 0 THEN RemoveHours(t, tl, SubMatchEnd(tl, i) + 1)
    ELSE <<t[i]>> \o RemoveHours(t, tl, i + 1)

\* the parse of handle_message: hours is << >> for None, <<h>> for a float
ParseActivity(text) ==
    LET tl   == LowerText(text)
        hits == {i \in 1..Len(tl) : HoursMatchAt(tl, i)}
    IN  IF hits = {} THEN [hours |-> <<>>, activity_text |-> text]
        ELSE LET i == SetMin(hits)
             IN  [hours |-> <<FloatOf(SubSeq(tl, i, NumberEnd(tl, i)))>>,
                  activity_text |-> Strip(RemoveHours(text, tl, 1))]

\* Python truth value of an optional number: None and 0 are false
Truthy(hours) == hours # <<>> /\ hours[1] # 0

(***************************************************************************)
(* Day tokens of the bulk backlog (process_backlog_week).                  *)
(***************************************************************************)
DayNames == <<"Monday", "Tuesday", "Wednesday", "Thursday", "Friday",
              "Saturday", "Sunday">>

\* day_map, grouped by the day each key maps to
DayKeys(day) ==
    IF day = "Monday" THEN {<<"m","o","n","d","a","y">>, <<"m","o","n">>, <<"m">>}
    ELSE IF day = "Tuesday" THEN {<<"t","u","e","s","d","a","y">>, <<"t","u","e">>, <<"t","u","e","s">>, <<"t">>}
    ELSE IF day = "Wednesday" THEN {<<"w","e","d","n","e","s","d","a","y">>, <<"w","e","d">>, <<"w">>}
    ELSE IF day = "Thursday" THEN {<<"t","h","u","r","s","d","a","y">>, <<"t","h","u">>, <<"t","h","u","r">>, <<"t","h">>}
    ELSE IF day = "Friday" THEN {<<"f","r","i","d","a","y">>, <<"f","r","i">>, <<"f">>}
    ELSE {}

\* day_to_num
DayToNum(day) == (CHOOSE i \in 1..7 : DayNames[i] = day) - 1

SeqElems(s) == {s[i] : i \in 1..Len(s)}

ReplaceCommas(t) == [i \in 1..Len(t) |-> IF t[i] = "," THEN " " ELSE t[i]]

RECURSIVE FilterDays(_, _)
FilterDays(days, toks) ==
    IF days = <<>> THEN <<>>
    ELSE (IF DayKeys(Head(days)) \cap toks # {} THEN <<Head(days)>> ELSE <<>>)
         \o FilterDays(Tail(days), toks)

\* selected_days where a text without a day token means every weekday
ParseDaysLenient(text) ==
    LET found == FilterDays(SubSeq(DayNames, 1, 5),
                            SeqElems(SplitWs(LowerText(text))))
    IN  IF found = <<>> THEN SubSeq(DayNames, 1, 5) ELSE found

\* selected_days of the text (already stripped)
ParseDays(text) ==
    LET tl   == LowerText(text)
        toks == SeqElems(SplitWs(tl)) \cup SeqElems(SplitWs(ReplaceCommas(tl)))
    IN  IF /\ Contains(tl, <<"a","l","l">>)
           /\ \/ Contains(tl, <<"w","e","e","k","d","a","y">>)
              \/ Contains(tl, <<"w","e","e","k">>)
        THEN SubSeq(DayNames, 1, 5)
        ELSE FilterDays(SubSeq(DayNames, 1, 5), toks)

(***************************************************************************)
(* Date texts of the bulk backlog: "week of <month> <day>" and the         *)
(* standard formats (process_backlog_week).                                *)
(***************************************************************************)
MonthNames == <<<<"j","a","n","u","a","r","y">>,
               <<"f","e","b","r","u","a","r","y">>,
               <<"m","a","r","c","h">>,
               <<"a","p","r","i","l">>,
               <<"m","a","y">>,
               <<"j","u","n","e">>,
               <<"j","u","l","y">>,
               <<"a","u","g","u","s","t">>,
               <<"s","e","p","t","e","m","b","e","r">>,
               <<"o","c","t","o","b","e","r">>,
               <<"n","o","v","e","m","b","e","r">>,
               <<"d","e","c","e","m","b","e","r">>>>

MonthAbbrs == [i \in 1..12 |-> SubSeq(MonthNames[i], 1, 3)]

WordRunEnd(t, i) ==
    SetMax({j \in i..Len(t) : \A k \in i..j : IsWordChar(t[k])})

\* does "week of <word> <digits>" match the lower-cased text at i
WeekOfMatchAt(tl, i) ==
    /\ StartsAt(tl, i, <<"w","e","e","k"," ","o","f"," ">>)
    /\ i + 8 <= Len(tl) /\ IsWordChar(tl[i + 8])
    /\ LET w == WordRunEnd(tl, i + 8)
           d == SkipWs(tl, w + 1)
       IN  d > w + 1 /\ d <= Len(tl) /\ IsDigit(tl[d])

\* strptime(f"{month_name} {day} {year}", fmt) for fmt '%B %d %Y' (names the
\* full month names) or '%b %d %Y' (names the abbreviations)
StrpMonthDay(names, month_name, day, year) ==
    LET hit == {m \in 1..12 : names[m] = month_name}
    IN  IF hit = {} THEN <<>>
        ELSE DateOfFields(year, CHOOSE m \in hit : TRUE, DayField(NatToStr(day)))

\* monday_date of the natural-language branch, << >> when it stays None
NaturalMonday(text, year) ==
    LET tl   == LowerText(text)
        hits == {i \in 1..Len(tl) : WeekOfMatchAt(tl, i)}
    IN  IF hits = {} THEN <<>>
        ELSE LET i     == SetMin(hits)
                 w     == WordRunEnd(tl, i + 8)
                 d     == SkipWs(tl, w + 1)
                 name  == SubSeq(tl, i + 8, w)
                 day   == StrToNat(SubSeq(tl, d, DigitRunEnd(tl, d)))
                 full  == StrpMonthDay(MonthNames, name, day, year)
                 abbr  == StrpMonthDay(MonthAbbrs, name, day, year)
                 found == IF full # <<>> THEN full ELSE abbr
             IN  IF found = <<>> THEN <<>> ELSE <<MondayOf(found[1])>>

\* monday_date of the standard formats: ISO, MM/DD/YYYY, then MM/DD with
\* the current year appended
StandardDate(text, year) ==
    IF StrpISO(text) # <<>> THEN StrpISO(text)
    ELSE IF StrpUS(text) # <<>> THEN StrpUS(text)
    ELSE StrpUS(text \o <<"/">> \o NatToStr(year))

(***************************************************************************)
(* Reminder time (process_reminder_setting): re.match of one or two        *)
(* digits, a colon and two digits at the start of the text.  << >> when    *)
(* there is no match, else <<hour, minute>>.                               *)
(***************************************************************************)
\* the time of a text, its hour taken modulo 24
ParseTimeWrapped(text) ==
    IF Len(text) >= 5 /\ IsDigit(text[1]) /\ IsDigit(text[2]) /\ text[3] = ":"
       /\ IsDigit(text[4]) /\ IsDigit(text[5])
    THEN <<StrToNat(SubSeq(text, 1, 2)) % 24, StrToNat(SubSeq(text, 4, 5))>>
    ELSE <<>>

ParseTime(text) ==
    LET h == IF Len(text) >= 2 /\ IsDigit(text[1]) /\ IsDigit(text[2]) /\ StartsAt(text, 3, <<":">>)
             THEN 2
             ELSE IF Len(text) >= 1 /\ IsDigit(text[1]) /\ StartsAt(text, 2, <<":">>)
             THEN 1 ELSE 0
    IN  IF h = 0 THEN <<>>
        ELSE IF h + 3 <= Len(text) /\ IsDigit(text[h + 2]) /\ IsDigit(text[h + 3])
        THEN <<StrToNat(SubSeq(text, 1, h)), StrToNat(SubSeq(text, h + 2, h + 3))>>
        ELSE <<>>

(***************************************************************************)
(* The texts handle_message compares a message with.  An emoji is one      *)
(* character, written as a name in braces.                                 *)
(***************************************************************************)
LogToday == <<"{memo}"," ","L","o","g"," ","T","o","d","a","y">>

ViewWeek == <<"{chart}"," ","V","i","e","w"," ","W","e","e","k">>

\* the label of another button in the place of the Backlog Entry label
BacklogEntryMistyped == <<"{calendar}"," ","B","a","c","k","l","o","g"," ","E","n","t","r","y">>

BacklogEntry == <<"{rewind}"," ","B","a","c","k","l","o","g"," ","E","n","t","r","y">>

PastWeeks == <<"{calendar}"," ","P","a","s","t"," ","W","e","e","k","s">>

BacklogWeek == <<"{clock}"," ","B","a","c","k","l","o","g"," ","W","e","e","k">>

MonthCalendar == <<"{tearoff}"," ","M","o","n","t","h"," ","C","a","l","e","n","d","a","r">>

MonthlyHours == <<"{chart}"," ","M","o","n","t","h","l","y"," ","H","o","u","r","s">>

SetReminder == <<"{bell}"," ","S","e","t"," ","R","e","m","i","n","d","e","r">>

GenerateTimesheet == <<"{check}"," ","G","e","n","e","r","a","t","e"," ","T","i","m","e","s","h","e","e","t">>

EmailToMentor == <<"{email}"," ","E","m","a","i","l"," ","t","o"," ","M","e","n","t","o","r">>

ClearWeek == <<"{bin}"," ","C","l","e","a","r"," ","W","e","e","k">>

DeleteThisWeek == <<"{bin}"," ","D","e","l","e","t","e"," ","T","h","i","s"," ","W","e","e","k">>

CancelButton == <<"{cross}"," ","C","a","n","c","e","l">>

ViewThisWeek == <<"{chart}"," ","V","i","e","w"," ","T","h","i","s"," ","W","e","e","k">>

CancelWord == <<"c","a","n","c","e","l">>

OffWord == <<"o","f","f">>

\* the keyboard of start_command, row by row
MainKeyboard == << <<"{memo}"," ","L","o","g"," ","T","o","d","a","y">>,
                   <<"{chart}"," ","V","i","e","w"," ","W","e","e","k">>,
                   <<"{rewind}"," ","B","a","c","k","l","o","g"," ","E","n","t","r","y">>,
                   <<"{calendar}"," ","P","a","s","t"," ","W","e","e","k","s">>,
                   <<"{clock}"," ","B","a","c","k","l","o","g"," ","W","e","e","k">>,
                   <<"{tearoff}"," ","M","o","n","t","h"," ","C","a","l","e","n","d","a","r">>,
                   <<"{chart}"," ","M","o","n","t","h","l","y"," ","H","o","u","r","s">>,
                   <<"{bell}"," ","S","e","t"," ","R","e","m","i","n","d","e","r">>,
                   <<"{check}"," ","G","e","n","e","r","a","t","e"," ","T","i","m","e","s","h","e","e","t">>,
                   <<"{email}"," ","E","m","a","i","l"," ","t","o"," ","M","e","n","t","o","r">>,
                   <<"{bin}"," ","C","l","e","a","r"," ","W","e","e","k">> >>

\* the keyboard process_past_week_selection shows with the selected week
PastWeekKeyboard == << <<"{chart}"," ","V","i","e","w"," ","T","h","i","s"," ","W","e","e","k">>,
                       <<"{check}"," ","G","e","n","e","r","a","t","e"," ","T","i","m","e","s","h","e","e","t">>,
                       <<"{bin}"," ","D","e","l","e","t","e"," ","T","h","i","s"," ","W","e","e","k">>,
                       <<"{cross}"," ","C","a","n","c","e","l">> >>

\* the eleven labels of the main keyboard
MenuLabels == {MainKeyboard[i] : i \in 1..Len(MainKeyboard)}

(***************************************************************************)
(* State.                                                                  *)
(*   store      the content of lab_activities.json: week key -> date key  *)
(*              -> sequence of entries [activity, hours]; hours is << >>  *)
(*              when the entry has no 'hours' key.  The 'timestamp' of an *)
(*              entry is written and never read, and is left out.         *)
(*   user_data  context.user_data of each chat: the dialog flags and the  *)
(*              pending fields (<< >> when the key is absent, <<v>> when  *)
(*              it holds v)                                               *)
(*   jobs       the jobs of the job queue named 'daily_reminder'          *)
(*   now        datetime.now(): [ord, tod]                                *)
(*   reply      the last message handled (its chat and text), the handler *)
(*              that answered it, the kind of its reply, the week key it  *)
(*              looked up and the document or listing it sent             *)
(*   sent       the number of messages the chats have sent                *)
(*   d, week_key, week_dates   the date utilities run on their own        *)
(*   requests   the calls of add_activity that the threads of the web      *)
(*              application are running: where each is, its arguments and  *)
(*              the activities it has loaded                               *)
(***************************************************************************)
VARIABLES store, user_data, jobs, now, reply, sent, d, week_key, week_dates,
          requests

vars ==
    <<store, user_data, jobs, now, reply, sent, d, week_key, week_dates,
      requests>>

\* chat identities
NumChats == 2

Chats == 1..NumChats

\* timedelta(days=60) of the backlog window
BacklogDays == 60

\* the standard hours of a bulk entry, 3.0, in hundredths
StandardHours == 300

EmptyUserData ==
    [backlog_mode |-> FALSE, entering_backlog_activity |-> FALSE,
     backlog_week_mode |-> FALSE, selecting_past_week |-> FALSE,
     past_week_action_mode |-> FALSE, setting_reminder |-> FALSE,
     backlog_date |-> <<>>, backlog_week_start |-> <<>>,
     backlog_days_worked |-> <<>>, past_weeks_list |-> <<>>,
     selected_past_week |-> <<>>]

\* a < b on datetimes
DtLess(a, b) == a.ord < b.ord \/ (a.ord = b.ord /\ a.tod < b.tod)

\* a - timedelta(days=n)
DtMinusDays(a, n) == [ord |-> a.ord - n, tod |-> a.tod]

\* the datetime strptime gives for a date: midnight of the day
Midnight(n) == [ord |-> n, tod |-> 0]

(***************************************************************************)
(* Dictionaries.                                                           *)
(***************************************************************************)
EmptyDict == <<>>

PutKey(f, k, v) == [x \in (DOMAIN f) \cup {k} |-> IF x = k THEN v ELSE f[x]]

DelKey(f, k) == [x \in (DOMAIN f) \ {k} |-> f[x]]

\* sum(act.get('hours', 0) for act in day_data)
RECURSIVE SumHours(_)
SumHours(acts) ==
    IF acts = <<>> THEN 0
    ELSE (IF Head(acts).hours = <<>> THEN 0 ELSE Head(acts).hours[1])
         + SumHours(Tail(acts))

\* the number of entries of a week record, over the date keys given
RECURSIVE WeekEntriesIn(_, _)
WeekEntriesIn(week, keys) ==
    IF keys = {} THEN 0
    ELSE LET k == CHOOSE x \in keys : TRUE
         IN  Len(week[k]) + WeekEntriesIn(week, keys \ {k})

WeekEntries(week) == WeekEntriesIn(week, DOMAIN week)

\* the total hours of a week record, over the date keys given
RECURSIVE WeekHoursIn(_, _)
WeekHoursIn(week, keys) ==
    IF keys = {} THEN 0
    ELSE LET k == CHOOSE x \in keys : TRUE
         IN  SumHours(week[k]) + WeekHoursIn(week, keys \ {k})

WeekHours(week) == WeekHoursIn(week, DOMAIN week)

RECURSIVE TotalEntriesIn(_, _)
TotalEntriesIn(st, keys) ==
    IF keys = {} THEN 0
    ELSE LET k == CHOOSE x \in keys : TRUE
         IN  WeekEntries(st[k]) + TotalEntriesIn(st, keys \ {k})

TotalEntries(st) == TotalEntriesIn(st, DOMAIN st)

\* the order of str on the characters of a date key
CharCode(c) == IF c = "-" THEN 45 ELSE IF IsDigit(c) THEN 48 + DigitVal(c) ELSE 128

RECURSIVE StrLess(_, _)
StrLess(a, b) ==
    IF b = <<>> THEN FALSE
    ELSE IF a = <<>> THEN TRUE
    ELSE IF CharCode(Head(a)) # CharCode(Head(b))
    THEN CharCode(Head(a)) < CharCode(Head(b))
    ELSE StrLess(Tail(a), Tail(b))

\* sorted(keys, reverse=True)
RECURSIVE SortedDesc(_)
SortedDesc(keys) ==
    IF keys = {} THEN <<>>
    ELSE LET top == CHOOSE k \in keys : \A o \in keys \ {k} : StrLess(o, k)
         IN  <<top>> \o SortedDesc(keys \ {top})

(***************************************************************************)
(* The handlers of TimesheetBot.  Each gives the outcome of one call:      *)
(* the chat's user_data, the store, the jobs, and the reply sent.          *)
(***************************************************************************)
\* wk is the week key the handler looked up in the store, << >> for none;
\* res is the document or the listing it sent, << >> for none
OutResult(u, st, jb, handler, kind, wk, res) ==
    [ud |-> u, st |-> st, jb |-> jb,
     rep |-> [handler |-> handler, kind |-> kind, week |-> wk,
              result |-> res]]

OutWeek(u, st, jb, handler, kind, wk) ==
    OutResult(u, st, jb, handler, kind, wk, <<>>)

Out(u, st, jb, handler, kind) == OutWeek(u, st, jb, handler, kind, <<>>)

\* monday = target_date - timedelta(days=target_date.weekday());
\* week_key = monday.strftime('%Y-%m-%d')
WeekKeyOf(n) == StrfISO(MondayOf(n))

\* get_current_week_key
CurrentWeekKey(nw) == StrfISO(MondayOf(nw.ord))

\* get_week_dates: << >> where strptime raises
get_week_dates(wk) ==
    IF StrpISO(wk) = <<>> THEN <<>>
    ELSE [i \in 1..7 |-> StrfISO(StrpISO(wk)[1] + i - 1)]

\* `week_key not in activities or not activities[week_key]`
NoWeekData(st, wk) == wk \notin DOMAIN st \/ st[wk] = EmptyDict

\* the entry a handler builds: 'hours' is set only under `if hours:`
Entry(activity_text, hours) ==
    [activity |-> activity_text,
     hours |-> IF Truthy(hours) THEN hours ELSE <<>>]

\* activities[wk][dk].append(e), the week and the day made when missing
AppendEntry(st, wk, dk, e) ==
    LET week == IF wk \in DOMAIN st THEN st[wk] ELSE EmptyDict
        day  == IF dk \in DOMAIN week THEN week[dk] ELSE <<>>
    IN  PutKey(st, wk, PutKey(week, dk, Append(day, e)))

\* log_activity; date_str is << >> for None
log_activity(u, st, jb, nw, activity_text, hours, date_str) ==
    LET target == IF date_str # <<>> THEN StrpISO(date_str[1]) ELSE <<nw.ord>>
    IN  IF target = <<>> THEN Out(u, st, jb, "log_activity", "raised")
        ELSE Out(u,
                 AppendEntry(st, StrfISO(MondayOf(target[1])),
                             StrfISO(target[1]), Entry(activity_text, hours)),
                 jb, "log_activity",
                 IF Truthy(hours) THEN "logged_with_hours" ELSE "logged")

\* view_week ending the dialog under way: every flag and field reset
ViewWeekEndingDialog(u, st, jb, nw) ==
    IF NoWeekData(st, CurrentWeekKey(nw))
    THEN OutWeek(EmptyUserData, st, jb, "view_week", "no_activities",
                 <<CurrentWeekKey(nw)>>)
    ELSE OutWeek(EmptyUserData, st, jb, "view_week", "week_view",
                 <<CurrentWeekKey(nw)>>)

view_week(u, st, jb, nw) ==
    IF NoWeekData(st, CurrentWeekKey(nw))
    THEN OutWeek(u, st, jb, "view_week", "no_activities", <<CurrentWeekKey(nw)>>)
    ELSE OutWeek(u, st, jb, "view_week", "week_view", <<CurrentWeekKey(nw)>>)

clear_week(u, st, jb, nw) ==
    IF CurrentWeekKey(nw) \in DOMAIN st
    THEN Out(u, DelKey(st, CurrentWeekKey(nw)), jb, "clear_week", "cleared")
    ELSE Out(u, st, jb, "clear_week", "nothing_to_clear")

backlog_prompt(u, st, jb) ==
    Out([u EXCEPT !.backlog_mode = TRUE], st, jb, "backlog_prompt", "prompt")

\* the test of the window without its `target_date > datetime.now()`
OlderThanWindow(n, nw) == DtLess(Midnight(n), DtMinusDays(nw, BacklogDays))

\* `target_date < two_months_ago or target_date > datetime.now()`
OutsideWindow(n, nw) ==
    \/ DtLess(Midnight(n), DtMinusDays(nw, BacklogDays))
    \/ DtLess(nw, Midnight(n))

process_backlog_entry(u, st, jb, nw, raw) ==
    LET text   == Strip(raw)
        parsed == IF StrpISO(text) # <<>> THEN StrpISO(text) ELSE StrpUS(text)
    IN  IF LowerText(text) = CancelWord
        THEN Out([u EXCEPT !.backlog_mode = FALSE], st, jb,
                 "process_backlog_entry", "cancelled")
        ELSE IF parsed = <<>>
        THEN Out(u, st, jb, "process_backlog_entry", "invalid_format")
        ELSE IF OutsideWindow(parsed[1], nw)
        THEN Out(u, st, jb, "process_backlog_entry", "out_of_range")
        ELSE Out([u EXCEPT !.backlog_date = <<StrfISO(parsed[1])>>,
                           !.backlog_mode = FALSE,
                           !.entering_backlog_activity = TRUE],
                 st, jb, "process_backlog_entry", "date_stored")

\* the week keys of recent_weeks of show_past_weeks: newest first, those
\* not older than the window; the listing sent has, for each, its total
\* hours and its number of entries
RecentWeeks(st, nw) ==
    LET Recent(wk) == ~DtLess(Midnight(StrpISO(wk)[1]),
                              DtMinusDays(nw, BacklogDays))
    IN  SelectSeq(SortedDesc(DOMAIN st), Recent)

show_past_weeks(u, st, jb, nw) ==
    IF st = EmptyDict
    THEN Out(u, st, jb, "show_past_weeks", "no_past_weeks")
    ELSE IF RecentWeeks(st, nw) = <<>>
    THEN Out(u, st, jb, "show_past_weeks", "no_recent_weeks")
    ELSE OutResult([u EXCEPT !.past_weeks_list = <<RecentWeeks(st, nw)>>,
                             !.selecting_past_week = TRUE],
                   st, jb, "show_past_weeks", "weeks_listed", <<>>,
                   <<[i \in 1..Len(RecentWeeks(st, nw)) |->
                         [week_key |-> RecentWeeks(st, nw)[i],
                          total_hours |-> WeekHours(st[RecentWeeks(st, nw)[i]]),
                          total_entries |->
                              WeekEntries(st[RecentWeeks(st, nw)[i]])]]>>)

\* int(text) read as an index counted from 0
IntOfFromZero(text) ==
    IF AllDigits(text) THEN <<StrToNat(text) + 1>> ELSE <<>>

\* int(text): << >> where it raises ValueError
IntOf(text) ==
    IF AllDigits(text) THEN <<StrToNat(text)>>
    ELSE IF Len(text) > 1 /\ text[1] = "+" /\ AllDigits(Tail(text))
    THEN <<StrToNat(Tail(text))>>
    ELSE IF Len(text) > 1 /\ text[1] = "-" /\ AllDigits(Tail(text))
    THEN <<0 - StrToNat(Tail(text))>>
    ELSE <<>>

\* process_past_week_selection without its
\* `context.user_data['selected_past_week'] = selected_week`
PastWeekSelectionUnstored(u, st, jb, raw) ==
    LET text       == Strip(raw)
        week_num   == IntOf(text)
        past_weeks == IF u.past_weeks_list = <<>> THEN <<>>
                      ELSE u.past_weeks_list[1]
    IN  IF LowerText(text) = CancelWord
        THEN Out([u EXCEPT !.selecting_past_week = FALSE,
                           !.past_weeks_list = <<>>],
                 st, jb, "process_past_week_selection", "cancelled")
        ELSE IF week_num = <<>>
        THEN Out(u, st, jb, "process_past_week_selection", "invalid_number")
        ELSE IF week_num[1] < 1 \/ week_num[1] > Len(past_weeks)
        THEN Out(u, st, jb, "process_past_week_selection", "out_of_range")
        ELSE Out([u EXCEPT !.selecting_past_week = FALSE,
                           !.past_week_action_mode = TRUE],
                 st, jb, "process_past_week_selection", "week_selected")

process_past_week_selection(u, st, jb, raw) ==
    LET text       == Strip(raw)
        week_num   == IntOf(text)
        past_weeks == IF u.past_weeks_list = <<>> THEN <<>>
                      ELSE u.past_weeks_list[1]
    IN  IF LowerText(text) = CancelWord
        THEN Out([u EXCEPT !.selecting_past_week = FALSE,
                           !.past_weeks_list = <<>>],
                 st, jb, "process_past_week_selection", "cancelled")
        ELSE IF week_num = <<>>
        THEN Out(u, st, jb, "process_past_week_selection", "invalid_number")
        ELSE IF week_num[1] < 1 \/ week_num[1] > Len(past_weeks)
        THEN Out(u, st, jb, "process_past_week_selection", "out_of_range")
        ELSE Out([u EXCEPT !.selected_past_week = <<past_weeks[week_num[1]]>>,
                           !.selecting_past_week = FALSE,
                           !.past_week_action_mode = TRUE],
                 st, jb, "process_past_week_selection", "week_selected")

view_specific_week(u, st, jb, wk) ==
    IF NoWeekData(st, wk)
    THEN OutWeek(u, st, jb, "view_specific_week", "no_activities", <<wk>>)
    ELSE OutWeek(u, st, jb, "view_specific_week", "week_view", <<wk>>)

\* delete_past_week without its `if selected_week in activities`: the del
\* raises KeyError on a week that is not in the store
DeletePastWeekUnchecked(u, st, jb) ==
    IF u.selected_past_week = <<>>
    THEN Out(u, st, jb, "delete_past_week", "no_week_selected")
    ELSE IF u.selected_past_week[1] \in DOMAIN st
    THEN Out([u EXCEPT !.past_week_action_mode = FALSE,
                       !.selected_past_week = <<>>],
             DelKey(st, u.selected_past_week[1]), jb,
             "delete_past_week", "week_deleted")
    ELSE Out(u, st, jb, "delete_past_week", "raised")

delete_past_week(u, st, jb) ==
    LET cleared == [u EXCEPT !.past_week_action_mode = FALSE,
                             !.selected_past_week = <<>>]
    IN  IF u.selected_past_week = <<>>
        THEN Out(u, st, jb, "delete_past_week", "no_week_selected")
        ELSE IF u.selected_past_week[1] \in DOMAIN st
        THEN Out(cleared, DelKey(st, u.selected_past_week[1]), jb,
                 "delete_past_week", "week_deleted")
        ELSE Out(cleared, st, jb, "delete_past_week", "week_not_found")

(***************************************************************************)
(* The timesheet data the generate handlers hand to the renderer.          *)
(***************************************************************************)
\* the summary the web application falls back to
FallbackSummary == "Weekly lab activities completed as scheduled."

\* stands for message.content[0].text, the text the summarizer returns
AiSummary == "message.content[0].text"

TimeIn == "2:30 PM"

TimeOut == "5:30 PM"

\* date_obj.strftime('%m/%d/%Y')
StrfUS(n) ==
    LET ymd == Ord2Ymd(n)
    IN  Pad2(ymd[2]) \o <<"/">> \o Pad2(ymd[3]) \o <<"/">> \o Pad4(ymd[1])

\* the entry appended to daily_entries for a date of the week; 'day' holds
\* the weekday of strftime('%A') and the month and day of strftime('%B %d')
DailyEntry(date, acts) ==
    LET n == StrpISO(date)[1]
    IN  [day |-> <<Weekday(n), Ord2Ymd(n)[2], Ord2Ymd(n)[3]>>,
         date |-> StrfUS(n),
         time_in |-> IF SumHours(acts) > 0 THEN TimeIn ELSE "",
         time_out |-> IF SumHours(acts) > 0 THEN TimeOut ELSE "",
         mentor_initials |-> ""]

\* the loop over the dates of the week without its `and week_data[date]`
RECURSIVE DailyEntriesOfKeys(_, _)
DailyEntriesOfKeys(week_data, dates) ==
    IF dates = <<>> THEN <<>>
    ELSE (IF Head(dates) \in DOMAIN week_data
          THEN <<DailyEntry(Head(dates), week_data[Head(dates)])>>
          ELSE <<>>)
         \o DailyEntriesOfKeys(week_data, Tail(dates))

\* the loop over the dates of the week:
\* `if date in week_data and week_data[date]` appends an entry
RECURSIVE DailyEntries(_, _)
DailyEntries(week_data, dates) ==
    IF dates = <<>> THEN <<>>
    ELSE (IF Head(dates) \in DOMAIN week_data /\ week_data[Head(dates)] # <<>>
          THEN <<DailyEntry(Head(dates), week_data[Head(dates)])>>
          ELSE <<>>)
         \o DailyEntries(week_data, Tail(dates))

\* timesheet_data
TimesheetData(wk, week_data, summary) ==
    [week_start |-> wk,
     daily_entries |-> DailyEntries(week_data, get_week_dates(wk)),
     weekly_summary |-> summary]

\* generate_past_week_timesheet removing the week it has sent
GeneratePastWeekAndRemove(u, st, jb, ext) ==
    IF u.selected_past_week = <<>>
    THEN Out(u, st, jb, "generate_past_week_timesheet", "no_week_selected")
    ELSE IF NoWeekData(st, u.selected_past_week[1])
    THEN OutWeek(u, st, jb, "generate_past_week_timesheet", "no_activities",
                 u.selected_past_week)
    ELSE IF ext # "ok"
    THEN OutWeek(u, st, jb, "generate_past_week_timesheet", "error",
                 u.selected_past_week)
    ELSE OutResult([u EXCEPT !.past_week_action_mode = FALSE,
                             !.selected_past_week = <<>>],
                   DelKey(st, u.selected_past_week[1]), jb,
                   "generate_past_week_timesheet", "timesheet_sent",
                   u.selected_past_week,
                   <<TimesheetData(u.selected_past_week[1],
                                   st[u.selected_past_week[1]], AiSummary)>>)

\* ext is what the collaborators do in this call: "ok", "summarizer_fails",
\* "renderer_fails" or "both_fail"; each failure is caught by the handler's
\* except, which reports it
generate_past_week_timesheet(u, st, jb, ext) ==
    IF u.selected_past_week = <<>>
    THEN Out(u, st, jb, "generate_past_week_timesheet", "no_week_selected")
    ELSE IF NoWeekData(st, u.selected_past_week[1])
    THEN OutWeek(u, st, jb, "generate_past_week_timesheet", "no_activities",
                 u.selected_past_week)
    ELSE IF ext # "ok"
    THEN OutWeek(u, st, jb, "generate_past_week_timesheet", "error",
                 u.selected_past_week)
    ELSE OutResult([u EXCEPT !.past_week_action_mode = FALSE,
                             !.selected_past_week = <<>>],
                   st, jb, "generate_past_week_timesheet", "timesheet_sent",
                   u.selected_past_week,
                   <<TimesheetData(u.selected_past_week[1],
                                   st[u.selected_past_week[1]], AiSummary)>>)

generate_timesheet(u, st, jb, nw, ext) ==
    IF NoWeekData(st, CurrentWeekKey(nw))
    THEN OutWeek(u, st, jb, "generate_timesheet", "no_activities",
                 <<CurrentWeekKey(nw)>>)
    ELSE IF ext # "ok"
    THEN OutWeek(u, st, jb, "generate_timesheet", "error",
                 <<CurrentWeekKey(nw)>>)
    ELSE OutResult(u, st, jb, "generate_timesheet", "timesheet_sent",
                   <<CurrentWeekKey(nw)>>,
                   <<TimesheetData(CurrentWeekKey(nw), st[CurrentWeekKey(nw)],
                                   AiSummary)>>)

email_to_mentor(u, st, jb, nw, ext) ==
    IF NoWeekData(st, CurrentWeekKey(nw))
    THEN Out(u, st, jb, "email_to_mentor", "no_activities")
    ELSE IF ext # "ok"
    THEN Out(u, st, jb, "email_to_mentor", "error")
    ELSE Out(u, st, jb, "email_to_mentor", "drafts_sent")

backlog_week_prompt(u, st, jb) ==
    Out([u EXCEPT !.backlog_week_mode = TRUE], st, jb,
        "backlog_week_prompt", "prompt")

\* the date step without `monday_date - timedelta(days=weekday())`
BulkMondayAsGiven(text, nw) ==
    LET year == Ord2Ymd(nw.ord)[1]
        nat  == NaturalMonday(text, year)
    IN  IF nat # <<>> THEN nat ELSE StandardDate(text, year)

\* monday_date of the date step, << >> when no format matches
BulkMonday(text, nw) ==
    LET year == Ord2Ymd(nw.ord)[1]
        nat  == NaturalMonday(text, year)
        std  == StandardDate(text, year)
    IN  IF nat # <<>> THEN nat
        ELSE IF std = <<>> THEN <<>>
        ELSE <<MondayOf(std[1])>>

\* the loop over selected_days: one entry per day, at week_start + day_num
RECURSIVE BulkLog(_, _, _, _, _)
BulkLog(st, wk, week_start, days, text) ==
    IF days = <<>> THEN st
    ELSE BulkLog(AppendEntry(st, wk,
                             StrfISO(week_start + DayToNum(Head(days))),
                             [activity |-> text, hours |-> <<StandardHours>>]),
                 wk, week_start, Tail(days), text)

process_backlog_week(u, st, jb, nw, raw) ==
    LET text   == Strip(raw)
        monday == BulkMonday(text, nw)
        days   == ParseDays(text)
        start  == StrpISO(u.backlog_week_start[1])[1]
        wk     == StrfISO(start)
        st0    == IF wk \in DOMAIN st THEN st ELSE PutKey(st, wk, EmptyDict)
    IN  IF LowerText(text) = CancelWord
        THEN Out([u EXCEPT !.backlog_week_mode = FALSE,
                           !.backlog_week_start = <<>>,
                           !.backlog_days_worked = <<>>],
                 st, jb, "process_backlog_week", "cancelled")
        ELSE IF u.backlog_week_start = <<>>
        THEN IF monday = <<>>
             THEN Out(u, st, jb, "process_backlog_week", "invalid_format")
             ELSE IF OutsideWindow(monday[1], nw)
             THEN Out(u, st, jb, "process_backlog_week", "out_of_range")
             ELSE Out([u EXCEPT !.backlog_week_start = <<StrfISO(monday[1])>>],
                      st, jb, "process_backlog_week", "week_stored")
        ELSE IF u.backlog_days_worked = <<>>
        THEN IF days = <<>>
             THEN Out(u, st, jb, "process_backlog_week", "days_not_understood")
             ELSE Out([u EXCEPT !.backlog_days_worked = <<days>>],
                      st, jb, "process_backlog_week", "days_stored")
        ELSE Out([u EXCEPT !.backlog_week_mode = FALSE,
                           !.backlog_week_start = <<>>,
                           !.backlog_days_worked = <<>>],
                 BulkLog(st0, wk, start, u.backlog_days_worked[1], text),
                 jb, "process_backlog_week", "days_backlogged")

set_reminder_prompt(u, st, jb) ==
    Out([u EXCEPT !.setting_reminder = TRUE], st, jb,
        "set_reminder_prompt", "prompt")

process_reminder_setting(u, st, jb, chat, raw) ==
    LET text == LowerText(Strip(raw))
        tm   == ParseTime(text)
        done == [u EXCEPT !.setting_reminder = FALSE]
    IN  IF text = CancelWord
        THEN Out(done, st, jb, "process_reminder_setting", "cancelled")
        ELSE IF text = OffWord
        THEN Out(done, st, {}, "process_reminder_setting", "disabled")
        ELSE IF tm = <<>>
        THEN Out(u, st, jb, "process_reminder_setting", "invalid_format")
        ELSE IF tm[1] < 0 \/ tm[1] > 23 \/ tm[2] < 0 \/ tm[2] > 59
        THEN Out(u, st, jb, "process_reminder_setting", "out_of_range")
        ELSE Out(done, st,
                 {[chat_id |-> chat, hour |-> tm[1], minute |-> tm[2]]},
                 "process_reminder_setting", "reminder_set")

\* the dispatch of handle_message once no button label has matched: the
\* dialog flags, in the order the code tests them, then the same-day log
ModeDispatch(u, st, jb, nw, chat, text) ==
    IF u.backlog_week_mode THEN process_backlog_week(u, st, jb, nw, text)
    ELSE IF u.setting_reminder
    THEN process_reminder_setting(u, st, jb, chat, text)
    ELSE IF u.backlog_mode THEN process_backlog_entry(u, st, jb, nw, text)
    ELSE IF u.entering_backlog_activity
    THEN IF LowerText(text) = CancelWord
         THEN Out([u EXCEPT !.entering_backlog_activity = FALSE,
                            !.backlog_date = <<>>],
                  st, jb, "handle_message", "cancelled")
         ELSE LET p == ParseActivity(text)
                  o == log_activity(u, st, jb, nw, p.activity_text, p.hours,
                                    u.backlog_date)
              IN  IF o.rep.kind = "raised" THEN o
                  ELSE [o EXCEPT !.ud = [u EXCEPT
                                            !.entering_backlog_activity = FALSE,
                                            !.backlog_date = <<>>]]
    ELSE IF u.selecting_past_week
    THEN process_past_week_selection(u, st, jb, text)
    ELSE IF u.past_week_action_mode /\ text = ViewThisWeek
    THEN IF u.selected_past_week # <<>>
         THEN view_specific_week(u, st, jb, u.selected_past_week[1])
         ELSE Out(u, st, jb, "handle_message", "none")
    ELSE LET p == ParseActivity(text)
         IN  log_activity(u, st, jb, nw, p.activity_text, p.hours, <<>>)

handle_message(u, st, jb, nw, chat, text, ext) ==
    IF text = LogToday THEN Out(u, st, jb, "handle_message", "log_today_prompt")
    ELSE IF text = ViewWeek THEN view_week(u, st, jb, nw)
    ELSE IF text = BacklogEntry THEN backlog_prompt(u, st, jb)
    ELSE IF text = PastWeeks THEN show_past_weeks(u, st, jb, nw)
    ELSE IF text = BacklogWeek THEN backlog_week_prompt(u, st, jb)
    ELSE IF text = MonthCalendar
    THEN Out(u, st, jb, "show_month_calendar", "calendar")
    ELSE IF text = MonthlyHours
    THEN Out(u, st, jb, "show_monthly_hours", "monthly_hours")
    ELSE IF text = SetReminder THEN set_reminder_prompt(u, st, jb)
    ELSE IF text = GenerateTimesheet
    THEN IF u.past_week_action_mode
         THEN generate_past_week_timesheet(u, st, jb, ext)
         ELSE generate_timesheet(u, st, jb, nw, ext)
    ELSE IF text = EmailToMentor THEN email_to_mentor(u, st, jb, nw, ext)
    ELSE IF text = ClearWeek THEN clear_week(u, st, jb, nw)
    ELSE IF text = DeleteThisWeek /\ u.past_week_action_mode
    THEN delete_past_week(u, st, jb)
    ELSE IF text = CancelButton /\ u.past_week_action_mode
    THEN Out([u EXCEPT !.past_week_action_mode = FALSE,
                       !.selected_past_week = <<>>],
             st, jb, "handle_message", "cancelled")
    ELSE IF text = CancelButton /\ u.backlog_week_mode
    THEN Out([u EXCEPT !.backlog_week_mode = FALSE], st, jb,
             "handle_message", "cancelled")
    ELSE ModeDispatch(u, st, jb, nw, chat, text)

(***************************************************************************)
(* The store operations of TimesheetManager (the web application).         *)
(***************************************************************************)
\* add_activity: the store afterwards; unchanged where strptime raises
add_activity(st, date_str, activity_text, hours) ==
    IF StrpISO(date_str) = <<>> THEN st
    ELSE AppendEntry(st, StrfISO(MondayOf(StrpISO(date_str)[1])), date_str,
                     Entry(activity_text, hours))

\* the 'days' of get_week_data: for each date of the week, its entries
get_week_data(st, wk) ==
    LET week_data == IF wk \in DOMAIN st THEN st[wk] ELSE EmptyDict
        dates     == get_week_dates(wk)
    IN  [i \in 1..Len(dates) |->
            LET acts == IF dates[i] \in DOMAIN week_data
                        THEN week_data[dates[i]] ELSE <<>>
            IN  [date |-> dates[i], activities |-> acts,
                 total_hours |-> SumHours(acts)]]

\* delete_week: the store afterwards
delete_week(st, wk) == IF wk \in DOMAIN st THEN DelKey(st, wk) ELSE st

\* the test of delete_activity without its `0 <=`
CanDeleteActivityBelowLen(st, wk, date_str, index) ==
    /\ wk \in DOMAIN st
    /\ date_str \in DOMAIN st[wk]
    /\ index < Len(st[wk][date_str])

\* does delete_activity delete (and return True)
CanDeleteActivity(st, wk, date_str, index) ==
    /\ wk \in DOMAIN st
    /\ date_str \in DOMAIN st[wk]
    /\ 0 <= index /\ index < Len(st[wk][date_str])

\* list.pop() in the place of del list[index]: the last element goes
DelLast(acts, index) == SubSeq(acts, 1, Len(acts) - 1)

\* del list[index], index counted from 0
DelIndex(acts, index) ==
    SubSeq(acts, 1, index) \o SubSeq(acts, index + 2, Len(acts))

\* delete_activity dropping the date key of a bucket it empties
DeleteActivityPruning(st, wk, date_str, index) ==
    IF ~CanDeleteActivity(st, wk, date_str, index) THEN st
    ELSE IF Len(st[wk][date_str]) = 1
    THEN [st EXCEPT ![wk] = DelKey(st[wk], date_str)]
    ELSE [st EXCEPT ![wk][date_str] = DelIndex(st[wk][date_str], index)]

\* delete_activity: the store afterwards
delete_activity(st, wk, date_str, index) ==
    IF CanDeleteActivity(st, wk, date_str, index)
    THEN [st EXCEPT ![wk][date_str] = DelIndex(st[wk][date_str], index)]
    ELSE st

\* TimesheetManager.generate_timesheet: the kind of what it returns
\* ("no_activities" and "error" for (None, message), "timesheet_sent" for
\* (output_path, summary)) and the timesheet data it rendered; a failure of
\* the summarizer is caught and the fallback summary used
manager_generate_timesheet(st, wk, ext) ==
    LET summary == IF ext \in {"summarizer_fails", "both_fail"}
                   THEN FallbackSummary ELSE AiSummary
    IN  IF NoWeekData(st, wk)
        THEN [kind |-> "no_activities", result |-> <<>>]
        ELSE IF ext \in {"renderer_fails", "both_fail"}
        THEN [kind |-> "error", result |-> <<>>]
        ELSE [kind |-> "timesheet_sent",
              result |-> <<TimesheetData(wk, st[wk], summary)>>]

\* get_all_weeks: the weeks of the store, sorted(keys, reverse=True), each
\* with its total hours and its number of entries
get_all_weeks(st) ==
    LET keys == SortedDesc(DOMAIN st)
    IN  [i \in 1..Len(keys) |->
            [week_key |-> keys[i],
             total_hours |-> WeekHours(st[keys[i]]),
             total_entries |-> WeekEntries(st[keys[i]])]]

(***************************************************************************)
(* The dialog Mode of a chat, read off the flags in the order              *)
(* handle_message tests them.                                              *)
(***************************************************************************)
Mode(u) ==
    IF u.backlog_week_mode
    THEN (IF u.backlog_week_start = <<>> THEN "AwaitingBulkWeekDate"
          ELSE IF u.backlog_days_worked = <<>> THEN "AwaitingBulkWeekDays"
          ELSE "AwaitingBulkWeekActivity")
    ELSE IF u.setting_reminder THEN "AwaitingReminderTime"
    ELSE IF u.backlog_mode THEN "AwaitingBacklogDate"
    ELSE IF u.entering_backlog_activity THEN "AwaitingBacklogActivity"
    ELSE IF u.selecting_past_week THEN "AwaitingPastWeekSelection"
    ELSE IF u.past_week_action_mode THEN "AwaitingPastWeekAction"
    ELSE "Idle"

(***************************************************************************)
(* Bounds and inputs.                                                      *)
(***************************************************************************)
\* the most entries the store holds
MaxActs == 3

\* the most messages the chats send
MaxMsgs == 5

\* the number of dates the date utilities are run on
NumDates == 800

\* the first day of the runs: Thursday 2026-03-05
Today0 == Ymd2Ord(2026, 3, 5)

\* the first of the dates the date utilities are run on
FirstDate == Ymd2Ord(2023, 12, 25)

ActCultured == <<"C","u","l","t","u","r","e","d"," ","c","e","l","l","s","."," ","4"," ","h","o","u","r","s">>

ActLabWork == <<"L","a","b"," ","w","o","r","k">>

ActZero == <<"C","l","e","a","n","u","p"," ","0"," ","h","o","u","r","s">>

ActivityTexts == {ActCultured, ActLabWork, ActZero}

\* dates as the user types them: today, 2, 60 and 61 days ago, tomorrow
DateToday == StrfISO(Today0)

Date2Ago == StrfISO(Today0 - 2)

Date60Ago == StrfISO(Today0 - 60)

Date61Ago == StrfISO(Today0 - 61)

DateTomorrow == StrfISO(Today0 + 1)

\* a date of next week, and a date whose week began before the window
DateNextWeek == StrfISO(Today0 + 7)

Date70Ago == StrfISO(Today0 - 70)

BulkDateText == <<"2","0","2","6","-","0","1","-","0","6">>

\* the week of yesterday, named by a phrase
WeekOfPhrase == <<"W","e","e","k"," ","o","f"," ","M","a","r","c","h"," ","4">>

\* the date of 2 days ago as MM/DD/YYYY and as MM/DD
UsDate == StrfUS(Today0 - 2)

UsShortDate == SubSeq(StrfUS(Today0 - 2), 1, 5)

MonWedFri == <<"m","o","n"," ","w","e","d"," ","f","r","i">>

SatSun == <<"s","a","t",","," ","s","u","n">>

DayTexts == {MonWedFri, <<"m","o","n">>, SatSun}

NumberTexts == {<<"0">>, <<"1">>, <<"2">>, <<"9">>}

FivePm == <<"1","7",":","0","0">>

HalfPastNine == <<"9",":","3","0">>

HourTooLarge == <<"2","5",":","0","0">>

TimeTexts == {FivePm, HalfPastNine, HourTooLarge, OffWord}

\* what the user of a chat in Mode m types besides the buttons and cancel:
\* the inputs the Mode asks for, valid and invalid, and one text that fits
\* no Mode's grammar
ModeTexts(m) ==
    IF m = "Idle" THEN ActivityTexts
    ELSE IF m = "AwaitingBacklogDate"
    THEN {DateToday, Date2Ago, Date60Ago, Date61Ago, DateTomorrow, UsDate,
          UsShortDate, ActLabWork}
    ELSE IF m = "AwaitingBacklogActivity" THEN ActivityTexts
    ELSE IF m = "AwaitingBulkWeekDate"
    THEN {BulkDateText, Date2Ago, DateTomorrow, DateNextWeek, Date70Ago,
          UsDate, UsShortDate, WeekOfPhrase, ActLabWork}
    ELSE IF m = "AwaitingBulkWeekDays" THEN DayTexts \cup {ActLabWork}
    ELSE IF m = "AwaitingBulkWeekActivity" THEN {ActLabWork, ActCultured}
    ELSE IF m = "AwaitingPastWeekSelection" THEN NumberTexts \cup {ActLabWork}
    ELSE IF m = "AwaitingPastWeekAction" THEN {ActLabWork}
    ELSE TimeTexts \cup {ActLabWork}

\* the buttons of the keyboards
ButtonTexts ==
    MenuLabels \cup {PastWeekKeyboard[i] : i \in 1..Len(PastWeekKeyboard)}

\* the buttons a chat presses: the main menu, and outside Idle the buttons
\* of the other keyboards as well
Buttons(u) == IF Mode(u) = "Idle" THEN MenuLabels ELSE ButtonTexts

\* what the summarizer and the renderer do in a call: either can fail where
\* the message is Generate Timesheet or Email to Mentor
Exts(text) ==
    IF text \in {MainKeyboard[9], MainKeyboard[10]}
    THEN {"ok", "summarizer_fails", "renderer_fails"} ELSE {"ok"}

\* the chats that send messages
SpecChats == {1}

\* the inputs of the web application
WebDates ==
    {Date2Ago, Date60Ago, <<"2","0","2","6","-","3","-","3">>,
     <<"s","o","o","n">>}

WebHours == {<<>>, <<0>>, <<150>>}

(***************************************************************************)
(* Actions.                                                                *)
(***************************************************************************)
\* the calls of add_activity that run at the same time
NumRequests == 2

Requests == 1..NumRequests

\* no call of add_activity has begun
NoRequests ==
    [r \in Requests |->
        [pc |-> "idle", activities |-> EmptyDict, date_str |-> <<>>,
         hours |-> <<>>]]

\* noon of the first day
Noon0 == [ord |-> Today0, tod |-> 43200]

NoReply ==
    [chat |-> 0, text |-> <<>>, handler |-> "none", kind |-> "none",
     week |-> <<>>, result |-> <<>>]

DatesIdle == d = 0 /\ week_key = <<>> /\ week_dates = <<>>

Init ==
    /\ store = EmptyDict
    /\ user_data = [c \in Chats |-> EmptyUserData]
    /\ jobs = {}
    /\ now = Noon0
    /\ reply = NoReply
    /\ sent = 0
    /\ requests = NoRequests
    /\ DatesIdle

\* the outcome of the message text of chat c in the current state
Handled(c, text, ext) ==
    handle_message(user_data[c], store, jobs, now, c, text, ext)

\* chat c sends text, and handle_message runs on one user_data that all
\* chats share
ChatMessageOnSharedData(c, text, ext) ==
    \E o \in {Handled(c, text, ext)} :
        /\ sent < MaxMsgs
        /\ sent' = sent + 1
        /\ TotalEntries(o.st) <= MaxActs
        /\ user_data' = [b \in Chats |-> o.ud]
        /\ store' = o.st
        /\ jobs' = o.jb
        /\ reply' = [chat |-> c, text |-> text, handler |-> o.rep.handler,
                     kind |-> o.rep.kind, week |-> o.rep.week,
                     result |-> o.rep.result]
        /\ UNCHANGED <<now, d, week_key, week_dates, requests>>

\* chat c sends text, and handle_message runs to its end
ChatMessage(c, text, ext) ==
    \E o \in {Handled(c, text, ext)} :
        /\ sent < MaxMsgs
        /\ sent' = sent + 1
        /\ TotalEntries(o.st) <= MaxActs
        /\ user_data' = [user_data EXCEPT ![c] = o.ud]
        /\ store' = o.st
        /\ jobs' = o.jb
        /\ reply' = [chat |-> c, text |-> text, handler |-> o.rep.handler,
                     kind |-> o.rep.kind, week |-> o.rep.week,
                     result |-> o.rep.result]
        /\ UNCHANGED <<now, d, week_key, week_dates, requests>>

\* the chat presses a button of a keyboard
PressButton ==
    \E c \in SpecChats : \E text \in Buttons(user_data[c]) :
        \E ext \in Exts(text) : ChatMessage(c, text, ext)

\* the chat types the cancel word in the middle of a dialog
TypeCancel ==
    \E c \in SpecChats :
        /\ Mode(user_data[c]) # "Idle"
        /\ ChatMessage(c, CancelWord, "ok")

\* the chat types a text
TypeText ==
    \E c \in SpecChats : \E text \in ModeTexts(Mode(user_data[c])) :
        ChatMessage(c, text, "ok")

\* POST /api/activity
WebAddActivity(date_str, activity_text, hours) ==
    /\ StrpISO(date_str) # <<>>
    /\ TotalEntries(store) < MaxActs
    /\ store' = add_activity(store, date_str, activity_text, hours)
    /\ reply' = [chat |-> 0, text |-> date_str,
                 handler |-> "add_activity", kind |-> "true", week |-> <<>>,
                 result |-> <<>>]
    /\ UNCHANGED <<user_data, jobs, now, sent, d, week_key, week_dates,
                 requests>>

\* POST /api/activity with a date strptime rejects: the request fails
WebAddActivityRaises(date_str) ==
    /\ StrpISO(date_str) = <<>>
    /\ reply' = [chat |-> 0, text |-> date_str,
                 handler |-> "add_activity", kind |-> "raised", week |-> <<>>,
                 result |-> <<>>]
    /\ UNCHANGED <<store, user_data, jobs, now, sent, d, week_key, week_dates,
                   requests>>

WebAdd ==
    \E date_str \in WebDates :
        \/ \E text \in {ActLabWork} : \E hours \in WebHours :
               WebAddActivity(date_str, text, hours)
        \/ WebAddActivityRaises(date_str)

\* POST /api/activity/delete
WebDeleteActivity(wk, date_str, index) ==
    /\ store' = delete_activity(store, wk, date_str, index)
    /\ reply' = [chat |-> 0, text |-> <<>>, handler |-> "delete_activity",
                 kind |-> IF CanDeleteActivity(store, wk, date_str, index)
                          THEN "true" ELSE "false",
                 week |-> <<>>, result |-> <<>>]
    /\ UNCHANGED <<user_data, jobs, now, sent, d, week_key, week_dates,
                 requests>>

\* the week keys, date keys and indexes the requests name: those of the
\* store, and a week, a date and indexes that may be absent from it
WebWeeks == (DOMAIN store) \cup {CurrentWeekKey(now)}

WebDatesOf(wk) ==
    (IF wk \in DOMAIN store THEN DOMAIN store[wk] ELSE {}) \cup {DateToday}

\* from -1 to one past the last index of the bucket
WebIndexesOf(wk, date_str) ==
    (0 - 1)..(IF wk \in DOMAIN store /\ date_str \in DOMAIN store[wk]
              THEN Len(store[wk][date_str]) ELSE 0)

WebDeleteA ==
    \E wk \in WebWeeks : \E date_str \in WebDatesOf(wk) :
        \E index \in WebIndexesOf(wk, date_str) :
            WebDeleteActivity(wk, date_str, index)

\* POST /api/week/delete
WebDeleteWeek(wk) ==
    /\ store' = delete_week(store, wk)
    /\ reply' = [chat |-> 0, text |-> <<>>, handler |-> "delete_week",
                 kind |-> IF wk \in DOMAIN store THEN "true" ELSE "false",
                 week |-> <<>>, result |-> <<>>]
    /\ UNCHANGED <<user_data, jobs, now, sent, d, week_key, week_dates,
                 requests>>

WebDeleteW ==
    \E wk \in WebWeeks : WebDeleteWeek(wk)

\* what the collaborators do in a call of the web application
WebExts == {"ok", "summarizer_fails", "renderer_fails", "both_fail"}

\* GET /api/generate-timesheet/<week_key>
WebGenerateTimesheet(wk, ext) ==
    \E o \in {manager_generate_timesheet(store, wk, ext)} :
        /\ reply' = [chat |-> 0, text |-> <<>>,
                     handler |-> "manager_generate_timesheet",
                     kind |-> o.kind, week |-> <<wk>>, result |-> o.result]
        /\ UNCHANGED <<store, user_data, jobs, now, sent, d, week_key,
                       week_dates, requests>>

WebGenerate ==
    \E wk \in WebWeeks : \E ext \in WebExts : WebGenerateTimesheet(wk, ext)

\* GET /api/weeks
WebAllWeeks ==
    /\ reply' = [chat |-> 0, text |-> <<>>, handler |-> "get_all_weeks",
                 kind |-> "listed", week |-> <<>>,
                 result |-> <<get_all_weeks(store)>>]
    /\ UNCHANGED <<store, user_data, jobs, now, sent, d, week_key, week_dates,
                   requests>>

\* the chat dialog
Next == PressButton \/ TypeCancel \/ TypeText

Spec == Init /\ [][Next]_vars

\* the web application
NextStore == WebAdd \/ WebDeleteA \/ WebDeleteW \/ WebGenerate \/ WebAllWeeks

SpecStore == Init /\ [][NextStore]_vars

\* the chat dialog, with the deletions of the web application on the store
\* the chat writes
NextDeletes == PressButton \/ TypeCancel \/ TypeText \/ WebDeleteA \/ WebDeleteW

SpecDeletes == Init /\ [][NextDeletes]_vars

(***************************************************************************)
(* The chat dialog over a store that earlier runs have written             *)
(* (load_activities reads lab_activities.json): "Lab work" logged on       *)
(* Monday 2026-02-23, and with 3 hours on Tuesday 2026-02-17.              *)
(***************************************************************************)
PastStore ==
    AppendEntry(AppendEntry(EmptyDict, WeekKeyOf(Today0 - 10),
                            StrfISO(Today0 - 10), Entry(ActLabWork, <<>>)),
                WeekKeyOf(Today0 - 16), StrfISO(Today0 - 16),
                Entry(ActLabWork, <<StandardHours>>))

InitPast ==
    /\ store = PastStore
    /\ user_data = [c \in Chats |-> EmptyUserData]
    /\ jobs = {}
    /\ now = Noon0
    /\ reply = NoReply
    /\ sent = 0
    /\ requests = NoRequests
    /\ DatesIdle

SpecPast == InitPast /\ [][Next]_vars

(***************************************************************************)
(* Timesheet assembly by the web application and by the chat dialog on     *)
(* one store that earlier runs have written.                               *)
(***************************************************************************)
\* the messages of the chat in these runs: an activity of today, the
\* listing of the weeks, the number of the newest week, and the button that
\* generates
AssembleTexts == {ActCultured, PastWeeks, <<"1">>, GenerateTimesheet}

ChatAssemble ==
    \E c \in SpecChats : \E text \in AssembleTexts : \E ext \in Exts(text) :
        ChatMessage(c, text, ext)

NextAssemble == ChatAssemble \/ WebDeleteA \/ WebGenerate

\* the store these runs start from: "Lab work" logged on Thursday
\* 2026-02-19, and with 3 hours on Tuesday 2026-02-17 of the same week
AssembleStore ==
    AppendEntry(AppendEntry(EmptyDict, WeekKeyOf(Today0 - 14),
                            StrfISO(Today0 - 14), Entry(ActLabWork, <<>>)),
                WeekKeyOf(Today0 - 16), StrfISO(Today0 - 16),
                Entry(ActLabWork, <<StandardHours>>))

InitAssemble ==
    /\ store = AssembleStore
    /\ user_data = [c \in Chats |-> EmptyUserData]
    /\ jobs = {}
    /\ now = Noon0
    /\ reply = NoReply
    /\ sent = 0
    /\ requests = NoRequests
    /\ DatesIdle

SpecAssemble == InitAssemble /\ [][NextAssemble]_vars

(***************************************************************************)
(* The listings of the weeks, of the web application and of the chat, on   *)
(* the store the web application writes.                                   *)
(***************************************************************************)
ChatPastWeeks == \E c \in SpecChats : ChatMessage(c, PastWeeks, "ok")

NextWeeks == WebAdd \/ WebDeleteA \/ WebAllWeeks \/ ChatPastWeeks

SpecWeeks == Init /\ [][NextWeeks]_vars

(***************************************************************************)
(* Two chats talk to the bot in turn, each message handled to its end.     *)
(***************************************************************************)
\* the messages of the chats in these runs: the single-date backlog flow,
\* the reminder flow and the cancel word
SessionTexts ==
    {BacklogEntry, Date2Ago, SetReminder, FivePm, OffWord, CancelWord}

NextSessions ==
    \E c \in Chats : \E text \in SessionTexts : ChatMessage(c, text, "ok")

SpecSessions == Init /\ [][NextSessions]_vars

(***************************************************************************)
(* Calls of add_activity handled by threads of the web application at the  *)
(* same time: each call loads the whole file, changes what it loaded, and  *)
(* writes the whole file.                                                  *)
(***************************************************************************)
\* save_activities writing the file as it is now with the entry added
SavedActivitiesMerged(current, loaded, date_str, activity_text, hours) ==
    add_activity(current, date_str, activity_text, hours)

\* what add_activity hands to save_activities: the activities it loaded
\* with the entry appended; the file as it is now is not read again
SavedActivities(current, loaded, date_str, activity_text, hours) ==
    add_activity(loaded, date_str, activity_text, hours)

\* the dates and hours of the calls
RaceDates == {Date2Ago, Date60Ago}

\* activities = self.load_activities()
RequestLoads(r, date_str, hours) ==
    /\ requests[r].pc = "idle"
    /\ requests' = [requests EXCEPT ![r] =
                       [pc |-> "loaded", activities |-> store,
                        date_str |-> date_str, hours |-> hours]]
    /\ UNCHANGED <<store, user_data, jobs, now, reply, sent, d, week_key,
                   week_dates>>

\* self.save_activities(activities); return True
RequestSaves(r) ==
    /\ requests[r].pc = "loaded"
    /\ store' = SavedActivities(store, requests[r].activities,
                                requests[r].date_str, ActLabWork,
                                requests[r].hours)
    /\ requests' = [requests EXCEPT ![r].pc = "done"]
    /\ reply' = [chat |-> 0, text |-> requests[r].date_str,
                 handler |-> "add_activity", kind |-> "true", week |-> <<>>,
                 result |-> <<>>]
    /\ UNCHANGED <<user_data, jobs, now, sent, d, week_key, week_dates>>

Load ==
    \E r \in Requests : \E date_str \in RaceDates : \E hours \in WebHours :
        RequestLoads(r, date_str, hours)

Save == \E r \in Requests : RequestSaves(r)

NextRace == Load \/ Save

SpecRace == Init /\ [][NextRace]_vars

(***************************************************************************)
(* The date utilities on their own: a date, its week key                   *)
(* (add_activity, log_activity), and the dates of that week                *)
(* (get_week_dates).                                                       *)
(***************************************************************************)
InitDates ==
    /\ store = EmptyDict
    /\ user_data = [c \in Chats |-> EmptyUserData]
    /\ jobs = {}
    /\ now = [ord |-> Today0, tod |-> 0]
    /\ reply = NoReply
    /\ sent = 0
    /\ requests = NoRequests
    /\ d \in FirstDate..(FirstDate + NumDates - 1)
    /\ week_key = <<>>
    /\ week_dates = <<>>

ComputeWeekKey ==
    /\ week_key = <<>>
    /\ week_key' = WeekKeyOf(d)
    /\ UNCHANGED <<store, user_data, jobs, now, reply, sent, d, week_dates,
                   requests>>

ComputeWeekDates ==
    /\ week_key # <<>>
    /\ week_dates = <<>>
    /\ week_dates' = get_week_dates(week_key)
    /\ UNCHANGED <<store, user_data, jobs, now, reply, sent, d, week_key,
                   requests>>

NextDates == ComputeWeekKey \/ ComputeWeekDates

SpecDates == InitDates /\ [][NextDates]_vars

(***************************************************************************)
(* Properties of the date utilities, checked under SpecDates.              *)
(***************************************************************************)
\* C2: for every calendar date d, the week key computed for d is a Monday
\* not after d and less than 7 days before it (ordinal 1, 0001-01-01, is a
\* Monday, so Mondays are the ordinals n with n % 7 = 1), and
\* get_week_dates of that key returns 7 dates, consecutive from the key
\* (Monday) to the Sunday after it, with d among them.
C2_WeekKeyIsMondayOfWeek ==
    /\ week_key # <<>> =>
          /\ StrpISO(week_key) # <<>>
          /\ StrpISO(week_key)[1] % 7 = 1
          /\ StrpISO(week_key)[1] <= d
          /\ d - StrpISO(week_key)[1] < 7
    /\ week_dates # <<>> =>
          /\ Len(week_dates) = 7
          /\ \E i \in 1..7 : week_dates[i] = StrfISO(d)
          /\ \A i \in 1..7 :
                /\ StrpISO(week_dates[i]) = <<StrpISO(week_key)[1] + i - 1>>
                /\ week_dates[i] = StrfISO(StrpISO(week_key)[1] + i - 1)

\* C2 happens: the dates of a week are computed for a Sunday whose week
\* began in the year before
C2_SundayAcrossNewYear ==
    /\ week_dates # <<>>
    /\ d % 7 = 0
    /\ Ord2Ymd(d)[1] = Ord2Ymd(StrpISO(week_key)[1])[1] + 1

(***************************************************************************)
(* Properties of the store operations, checked under SpecStore.            *)
(***************************************************************************)
\* C1: every week key of the store is a Monday, every date key of a week is
\* one of the 7 dates get_week_dates gives for the week key, and no
\* calendar date is a key under two different week keys.
C1_StoreKeysWellFormed ==
    /\ \A wk \in DOMAIN store :
          /\ StrpISO(wk) # <<>>
          /\ StrpISO(wk)[1] % 7 = 1
          /\ \A dk \in DOMAIN store[wk] :
                \E i \in 1..7 : get_week_dates(wk)[i] = dk
    /\ \A wk1 \in DOMAIN store : \A wk2 \in DOMAIN store :
          wk1 # wk2 =>
              \A dk1 \in DOMAIN store[wk1] : \A dk2 \in DOMAIN store[wk2] :
                  StrpISO(dk1) # StrpISO(dk2)

\* C3: add_activity(d, description, hours), for hours omitted, 0 or a
\* positive number, followed by get_week_data of d's week key gives, as the
\* last activity of d's day, an activity with that description and those
\* hours.
C3_AddThenGetRoundTrip ==
    [][\A date_str \in WebDates : \A hours \in WebHours :
           WebAddActivity(date_str, ActLabWork, hours) =>
               LET n    == StrpISO(date_str)[1]
                   acts == get_week_data(store', WeekKeyOf(n))[Weekday(n) + 1]
                               .activities
               IN  /\ acts # <<>>
                   /\ acts[Len(acts)] =
                          [activity |-> ActLabWork, hours |-> hours]]_vars

(***************************************************************************)
(* Properties of the chat dialog, checked under Spec.                      *)
(***************************************************************************)
\* the day bucket of date key dk under week key wk, empty when absent
Bucket(st, wk, dk) ==
    IF wk \in DOMAIN st /\ dk \in DOMAIN st[wk] THEN st[wk][dk] ELSE <<>>

\* the <<week key, date key>> pairs of a store
BucketKeys(st) ==
    UNION {{<<wk, dk>> : dk \in DOMAIN st[wk]} : wk \in DOMAIN st}

\* from store st0 to store st1, entry e is appended to the bucket of each
\* date key of dks under week key wk, and no other bucket changes
AppendedTo(st0, st1, wk, dks, e) ==
    \A k \in BucketKeys(st0) \cup BucketKeys(st1) \cup {<<wk, dk>> : dk \in dks} :
        Bucket(st1, k[1], k[2]) =
            IF k[1] = wk /\ k[2] \in dks
            THEN Append(Bucket(st0, k[1], k[2]), e)
            ELSE Bucket(st0, k[1], k[2])

\* no pending field of the session is set
NoPendingField(u) ==
    /\ u.backlog_date = <<>>
    /\ u.backlog_week_start = <<>>
    /\ u.backlog_days_worked = <<>>
    /\ u.past_weeks_list = <<>>
    /\ u.selected_past_week = <<>>

\* C4: in every Mode other than Idle, handling the text "cancel" leaves the
\* session Idle with no pending field set (backlog date, bulk week start,
\* bulk days, past-weeks list, selected past week).
C4_CancelReturnsToIdle ==
    [][\A c \in SpecChats :
           (/\ Mode(user_data[c]) # "Idle"
            /\ reply'.chat = c /\ reply'.text = CancelWord) =>
               /\ Mode(user_data'[c]) = "Idle"
               /\ NoPendingField(user_data'[c])]_vars

\* C5: in every Mode, each of the eleven labels of the main keyboard is
\* answered by the handler of its command (Generate Timesheet by the
\* generator of the current or of the selected week); the message is not
\* logged (the store gains no entry, and changes only on Clear Week) and is
\* not taken as the input the Mode waits for (no backlog date, bulk week
\* start or bulk day list is stored or cleared, no reminder is changed).
C5_MenuLabelsAreDispatched ==
    [][\A c \in SpecChats : \A i \in 1..Len(MainKeyboard) :
               (reply'.chat = c /\ reply'.text = MainKeyboard[i]) =>
                   LET handlers ==
                           << {"handle_message"}, {"view_week"},
                              {"backlog_prompt"}, {"show_past_weeks"},
                              {"backlog_week_prompt"}, {"show_month_calendar"},
                              {"show_monthly_hours"}, {"set_reminder_prompt"},
                              {"generate_timesheet",
                               "generate_past_week_timesheet"},
                              {"email_to_mentor"}, {"clear_week"} >>
                   IN  /\ reply'.handler \in handlers[i]
                       /\ i = 1 => reply'.kind = "log_today_prompt"
                       /\ TotalEntries(store') <= TotalEntries(store)
                       /\ i # 11 => store' = store
                       /\ user_data'[c].backlog_date = user_data[c].backlog_date
                       /\ user_data'[c].backlog_week_start =
                              user_data[c].backlog_week_start
                       /\ user_data'[c].backlog_days_worked =
                              user_data[c].backlog_days_worked
                       /\ jobs' = jobs]_vars

\* C5 happens: View Week has been pressed, and answered by view_week, while
\* the session waits for the activity of a backlog date
C5_ViewWeekWhileAwaitingActivity ==
    /\ reply.chat = 1
    /\ reply.handler = "view_week"
    /\ Mode(user_data[1]) = "AwaitingBacklogActivity"
    /\ user_data[1].backlog_date # <<>>

\* C6: in Mode Idle a text that is no command appends exactly one entry to
\* the bucket of today under the week key of today's Monday, with the hours
\* and the description the parse gives ("Cultured cells. 4 hours" gives 4
\* hours and "Cultured cells."); no other bucket changes and the Mode stays
\* Idle.
C6_IdleTextLogsToday ==
    [][\A c \in SpecChats : \A text \in ActivityTexts :
           (/\ Mode(user_data[c]) = "Idle"
            /\ reply'.chat = c /\ reply'.text = text) =>
               /\ AppendedTo(store, store', WeekKeyOf(now.ord),
                             {StrfISO(now.ord)},
                             [activity |-> ParseActivity(text).activity_text,
                              hours |-> ParseActivity(text).hours])
               /\ text = ActCultured =>
                      ParseActivity(text) =
                          [hours |-> <<400>>,
                           activity_text |-> SubSeq(ActCultured, 1, 15)]
               /\ Mode(user_data'[c]) = "Idle"]_vars

\* C7: in Mode AwaitingBacklogDate, at every time of the day, the date 2
\* days before today is accepted (it is stored and the Mode becomes
\* AwaitingBacklogActivity), and a date 61 or more days before today or a
\* date after today is answered as out of range, with the session (its
\* Mode and its pending fields) and the store as they were.
C7_BacklogWindow ==
    \A c \in SpecChats :
        Mode(user_data[c]) = "AwaitingBacklogDate" =>
            \A tod \in {0, 43200, 86399} :
                \A k \in {2, 61, 62, 366, 0 - 1, 0 - 30} :
                    \E o \in {handle_message(user_data[c], store, jobs,
                                             [ord |-> now.ord, tod |-> tod],
                                             c, StrfISO(now.ord - k), "ok")} :
                        IF k = 2
                        THEN /\ o.rep.kind = "date_stored"
                             /\ o.ud.backlog_date = <<StrfISO(now.ord - 2)>>
                             /\ Mode(o.ud) = "AwaitingBacklogActivity"
                             /\ o.st = store
                        ELSE /\ o.rep.kind = "out_of_range"
                             /\ o.ud = user_data[c]
                             /\ o.st = store

\* C7 happens: a date has been answered as out of range and the session
\* still waits for a backlog date
C7_DateRejectedOutOfRange ==
    /\ reply.chat = 1
    /\ reply.handler = "process_backlog_entry"
    /\ reply.kind = "out_of_range"
    /\ Mode(user_data[1]) = "AwaitingBacklogDate"

\* C8: in Mode AwaitingBacklogDate the date exactly 60 days before today
\* and the date of today are accepted, whatever the time of the day.
C8_WindowEndsAreAccepted ==
    [][\A c \in SpecChats : \A text \in {Date60Ago, DateToday} :
           (/\ Mode(user_data[c]) = "AwaitingBacklogDate"
            /\ reply'.chat = c /\ reply'.text = text) =>
               /\ reply'.kind = "date_stored"
               /\ user_data'[c].backlog_date = <<text>>]_vars

\* C9: in Mode AwaitingBacklogActivity a text that is no command and not
\* "cancel" appends exactly one entry to the bucket of the stored backlog
\* date, under the week key of that date's Monday, with the hours and the
\* description the parse gives; the stored date is cleared and the Mode
\* becomes Idle.
C9_BacklogActivityIsLogged ==
    [][\A c \in SpecChats : \A text \in ActivityTexts :
           (/\ Mode(user_data[c]) = "AwaitingBacklogActivity"
            /\ user_data[c].backlog_date # <<>>
            /\ reply'.chat = c /\ reply'.text = text) =>
               /\ AppendedTo(store, store',
                             WeekKeyOf(StrpISO(user_data[c].backlog_date[1])[1]),
                             {user_data[c].backlog_date[1]},
                             [activity |-> ParseActivity(text).activity_text,
                              hours |-> ParseActivity(text).hours])
               /\ user_data'[c].backlog_date = <<>>
               /\ Mode(user_data'[c]) = "Idle"]_vars

\* C10: in Mode AwaitingBulkWeekActivity a text that is no command and not
\* "cancel" appends one entry for each stored day and no other: dated the
\* stored Monday plus the offset of the weekday, under the stored week key,
\* with 3.0 hours and the text as its description; afterwards the Mode is
\* Idle and the bulk week start and the day list are cleared.
C10_BulkActivityPerStoredDay ==
    [][\A c \in SpecChats : \A text \in {ActLabWork, ActCultured} :
           (/\ Mode(user_data[c]) = "AwaitingBulkWeekActivity"
            /\ reply'.chat = c /\ reply'.text = text) =>
               LET start == StrpISO(user_data[c].backlog_week_start[1])[1]
                   days  == user_data[c].backlog_days_worked[1]
                   dates == {StrfISO(start + DayToNum(days[i])) :
                                 i \in 1..Len(days)}
               IN  /\ Cardinality(dates) = Len(days)
                   /\ AppendedTo(store, store',
                                 user_data[c].backlog_week_start[1], dates,
                                 [activity |-> text, hours |-> <<300>>])
                   /\ user_data'[c].backlog_week_start = <<>>
                   /\ user_data'[c].backlog_days_worked = <<>>
                   /\ Mode(user_data'[c]) = "Idle"]_vars

(***************************************************************************)
(* The bulk backlog of the week of 2026-01-06, a Tuesday.                  *)
(***************************************************************************)
Jan05 == <<"2","0","2","6","-","0","1","-","0","5">>

Jan07 == <<"2","0","2","6","-","0","1","-","0","7">>

Jan08 == <<"2","0","2","6","-","0","1","-","0","8">>

Jan09 == <<"2","0","2","6","-","0","1","-","0","9">>

Jan10 == <<"2","0","2","6","-","0","1","-","1","0">>

\* a dialog other than the bulk backlog is pending in the session
OtherDialogPending(u) ==
    \/ u.setting_reminder \/ u.backlog_mode \/ u.entering_backlog_activity
    \/ u.selecting_past_week \/ u.past_week_action_mode

\* the first two steps of the scenario: "2026-01-06" moves the session from
\* AwaitingBulkWeekDate to AwaitingBulkWeekDays, then "mon wed fri" moves it
\* to AwaitingBulkWeekActivity with Monday, Wednesday, Friday stored; the
\* store does not change
BulkScenarioSteps(c) ==
    /\ (/\ Mode(user_data[c]) = "AwaitingBulkWeekDate"
        /\ reply'.chat = c /\ reply'.text = BulkDateText) =>
           /\ Mode(user_data'[c]) = "AwaitingBulkWeekDays"
           /\ store' = store
    /\ (/\ Mode(user_data[c]) = "AwaitingBulkWeekDays"
        /\ reply'.chat = c /\ reply'.text = MonWedFri) =>
           /\ Mode(user_data'[c]) = "AwaitingBulkWeekActivity"
           /\ user_data'[c].backlog_days_worked =
                  << <<"Monday", "Wednesday", "Friday">> >>
           /\ store' = store

\* the session of chat c waits for the activity of Monday, Wednesday and
\* Friday of the week given as "2026-01-06" (stored as given or as its
\* Monday), and the step is its message "Lab work"
BulkScenarioLastMessage(c) ==
    /\ Mode(user_data[c]) = "AwaitingBulkWeekActivity"
    /\ user_data[c].backlog_week_start \in {<<BulkDateText>>, <<Jan05>>}
    /\ user_data[c].backlog_days_worked =
           << <<"Monday", "Wednesday", "Friday">> >>
    /\ reply'.chat = c /\ reply'.text = ActLabWork

C12_NoDaysNoAdvance ==
    [][\A c \in SpecChats :
           /\ \A text \in {ActLabWork, SatSun} :
                  (/\ Mode(user_data[c]) = "AwaitingBulkWeekDays"
                   /\ reply'.chat = c /\ reply'.text = text) =>
                      /\ user_data'[c] = user_data[c]
                      /\ store' = store
           /\ user_data'[c].backlog_days_worked # <<>> =>
                  Len(user_data'[c].backlog_days_worked[1]) > 0
           /\ \A text \in {ActLabWork, ActCultured} :
                  (/\ Mode(user_data[c]) = "AwaitingBulkWeekActivity"
                   /\ reply'.chat = c /\ reply'.text = text) =>
                      TotalEntries(store') > TotalEntries(store)]_vars

\* C12 happens: "sat, sun" has been answered as not understood and the
\* session still waits for the days of the stored week
C12_WeekendNotUnderstood ==
    /\ reply.chat = 1
    /\ reply.text = SatSun
    /\ reply.kind = "days_not_understood"
    /\ Mode(user_data[1]) = "AwaitingBulkWeekDays"
    /\ user_data[1].backlog_week_start # <<>>

(***************************************************************************)
(* Properties of the past-week dialog, checked under SpecPast.             *)
(***************************************************************************)
\* the number a text of NumberTexts denotes, 0 for any other text
NumberOf(text) ==
    IF text = <<"1">> THEN 1 ELSE IF text = <<"2">> THEN 2
    ELSE IF text = <<"9">> THEN 9 ELSE 0

\* the week list shown to the session, empty when none is stored
ShownWeeks(u) ==
    IF u.past_weeks_list = <<>> THEN <<>> ELSE u.past_weeks_list[1]

\* C13: in Mode AwaitingPastWeekSelection a number n from 1 to the length
\* of the list shown stores the n-th week key of the list as the selected
\* week and the Mode becomes AwaitingPastWeekAction; a text that is no
\* number, or a number outside that range (0, or beyond the list), leaves
\* the Mode, the list and the selection as they were.  The store does not
\* change.
C13_SelectionIsOneBased ==
    [][\A c \in SpecChats : \A text \in NumberTexts \cup {ActLabWork} :
           (/\ Mode(user_data[c]) = "AwaitingPastWeekSelection"
            /\ reply'.chat = c /\ reply'.text = text) =>
               /\ store' = store
               /\ IF NumberOf(text) \in 1..Len(ShownWeeks(user_data[c]))
                  THEN /\ user_data'[c].selected_past_week =
                              <<ShownWeeks(user_data[c])[NumberOf(text)]>>
                       /\ Mode(user_data'[c]) = "AwaitingPastWeekAction"
                  ELSE /\ Mode(user_data'[c]) = "AwaitingPastWeekSelection"
                       /\ user_data'[c].past_weeks_list =
                              user_data[c].past_weeks_list
                       /\ user_data'[c].selected_past_week =
                              user_data[c].selected_past_week]_vars

\* C13 happens: "2" has selected the second week of a list of at least two
\* different weeks
C13_SecondWeekSelected ==
    /\ reply.chat = 1
    /\ reply.text = <<"2">>
    /\ Mode(user_data[1]) = "AwaitingPastWeekAction"
    /\ Len(ShownWeeks(user_data[1])) >= 2
    /\ user_data[1].selected_past_week = <<ShownWeeks(user_data[1])[2]>>
    /\ ShownWeeks(user_data[1])[1] # ShownWeeks(user_data[1])[2]

\* C14: in Mode AwaitingPastWeekAction the buttons Delete This Week and
\* Generate Timesheet leave the session Idle with no week selected, and
\* the button View This Week leaves the Mode and the selected week as they
\* were.
C14_DeleteAndGenerateEndTheDialog ==
    [][\A c \in SpecChats :
           /\ (/\ Mode(user_data[c]) = "AwaitingPastWeekAction"
               /\ reply'.chat = c
               /\ reply'.text \in {DeleteThisWeek, GenerateTimesheet}) =>
                  /\ Mode(user_data'[c]) = "Idle"
                  /\ user_data'[c].selected_past_week = <<>>
           /\ (/\ Mode(user_data[c]) = "AwaitingPastWeekAction"
               /\ reply'.chat = c /\ reply'.text = ViewThisWeek) =>
                  /\ Mode(user_data'[c]) = "AwaitingPastWeekAction"
                  /\ user_data'[c].selected_past_week =
                         user_data[c].selected_past_week]_vars

\* C15: the command Generate Timesheet is answered from the selected past
\* week while the Mode is AwaitingPastWeekAction, and from the current week
\* in every other Mode.
C15_GenerateTargetsSelectedWeek ==
    [][\A c \in SpecChats :
           (reply'.chat = c /\ reply'.text = GenerateTimesheet) =>
               IF Mode(user_data[c]) = "AwaitingPastWeekAction"
               THEN /\ reply'.handler = "generate_past_week_timesheet"
                    /\ reply'.week = user_data[c].selected_past_week
               ELSE /\ reply'.handler = "generate_timesheet"
                    /\ reply'.week = <<CurrentWeekKey(now)>>]_vars

\* C16: in Mode AwaitingPastWeekAction a text that is no menu command, not
\* "cancel" and not one of the three actions ("Lab work") is ignored: the
\* store, the Mode and the selected week stay as they were.
C16_OtherTextIsIgnored ==
    [][\A c \in SpecChats :
           (/\ Mode(user_data[c]) = "AwaitingPastWeekAction"
            /\ reply'.chat = c /\ reply'.text = ActLabWork) =>
               /\ store' = store
               /\ Mode(user_data'[c]) = "AwaitingPastWeekAction"
               /\ user_data'[c].selected_past_week =
                      user_data[c].selected_past_week]_vars

(***************************************************************************)
(* Properties of the reminder dialog, checked under Spec.                  *)
(***************************************************************************)
\* C17: at most one reminder job is scheduled at any time; in Mode
\* AwaitingReminderTime a valid time ("17:00", "9:30") leaves exactly one
\* job, at that time, in place of the jobs there were, and "off" leaves no
\* job; both leave the Mode Idle.
C17_OneReminderJob ==
    [][\A c \in SpecChats :
           /\ Cardinality(jobs') <= 1
           /\ \A text \in {FivePm, HalfPastNine, OffWord} :
                  (/\ Mode(user_data[c]) = "AwaitingReminderTime"
                   /\ reply'.chat = c /\ reply'.text = text) =>
                      /\ text = FivePm =>
                             jobs' = {[chat_id |-> c, hour |-> 17, minute |-> 0]}
                      /\ text = HalfPastNine =>
                             jobs' = {[chat_id |-> c, hour |-> 9, minute |-> 30]}
                      /\ text = OffWord => jobs' = {}
                      /\ Mode(user_data'[c]) = "Idle"]_vars

(***************************************************************************)
(* Invalid input in the Modes that parse their input, checked under Spec.  *)
(***************************************************************************)
\* texts that do not parse, or parse to a value out of range, in Mode m
InvalidTexts(m) ==
    IF m = "AwaitingBacklogDate" THEN {ActLabWork, Date61Ago, DateTomorrow}
    ELSE IF m = "AwaitingBulkWeekDate"
    THEN {ActLabWork, DateNextWeek, Date70Ago}
    ELSE IF m = "AwaitingBulkWeekDays" THEN {ActLabWork, SatSun}
    ELSE IF m = "AwaitingPastWeekSelection" THEN {ActLabWork, <<"0">>, <<"9">>}
    ELSE IF m = "AwaitingReminderTime" THEN {ActLabWork, HourTooLarge}
    ELSE {}

\* C18: in the Modes AwaitingBacklogDate, AwaitingBulkWeekDate,
\* AwaitingBulkWeekDays, AwaitingPastWeekSelection and AwaitingReminderTime
\* a text that does not parse or is out of range is answered with a
\* reprompt and leaves the session (its Mode and every pending field), the
\* store and the reminder jobs as they were.
C18_InvalidInputReprompts ==
    [][\A c \in SpecChats :
           \A text \in InvalidTexts(Mode(user_data[c])) :
               (reply'.chat = c /\ reply'.text = text) =>
                   /\ user_data'[c] = user_data[c]
                   /\ store' = store
                   /\ jobs' = jobs
                   /\ reply'.kind \in {"invalid_format", "out_of_range",
                                       "days_not_understood",
                                       "invalid_number"}]_vars

\* C18 happens: "25:00" has been answered as out of range while a reminder
\* is scheduled, and the session still waits for a time
C18_HourRejectedReminderKept ==
    /\ reply.chat = 1
    /\ reply.text = HourTooLarge
    /\ reply.kind = "out_of_range"
    /\ Mode(user_data[1]) = "AwaitingReminderTime"
    /\ jobs # {}

(***************************************************************************)
(* Properties of delete_activity, checked under SpecStore.                 *)
(***************************************************************************)
\* from store st0 to store st1 the bucket of dk under wk loses the entry at
\* index i (counted from 0) and nothing else changes
RemovedAt(st0, st1, wk, dk, i) ==
    /\ DOMAIN st1 = DOMAIN st0
    /\ BucketKeys(st1) = BucketKeys(st0)
    /\ \A k \in BucketKeys(st0) :
           k # <<wk, dk>> => Bucket(st1, k[1], k[2]) = Bucket(st0, k[1], k[2])
    /\ Len(Bucket(st1, wk, dk)) = Len(Bucket(st0, wk, dk)) - 1
    /\ \A j \in 1..Len(Bucket(st1, wk, dk)) :
           Bucket(st1, wk, dk)[j] =
               Bucket(st0, wk, dk)[IF j <= i THEN j ELSE j + 1]

\* C19: delete_activity(week key, date, index) returns false and leaves
\* the store as it was when the week key is absent, the date is absent
\* from the week, or the index is not in 0..len(bucket)-1 (negative
\* indexes included); otherwise it returns true and removes exactly the
\* entry at that index.  It never raises.
C19_DeleteActivityIsGuarded ==
    [][\A wk \in WebWeeks : \A date_str \in WebDatesOf(wk) :
           \A index \in WebIndexesOf(wk, date_str) :
               WebDeleteActivity(wk, date_str, index) =>
                   IF /\ wk \in DOMAIN store
                      /\ date_str \in DOMAIN store[wk]
                      /\ index \in 0..(Len(store[wk][date_str]) - 1)
                   THEN /\ reply'.kind = "true"
                        /\ RemovedAt(store, store', wk, date_str, index)
                   ELSE /\ reply'.kind = "false"
                        /\ store' = store]_vars

\* C19 happens: delete_activity has returned true on a bucket of two
\* different entries, of which one is left
C19_OneOfTwoDeleted ==
    /\ reply.handler = "delete_activity"
    /\ reply.kind = "true"
    /\ \E k \in BucketKeys(store) :
           Bucket(store, k[1], k[2]) \in
               {<<[activity |-> ActLabWork, hours |-> <<>>]>>,
                <<[activity |-> ActLabWork, hours |-> <<150>>]>>}

\* C20: delete_activity removes no week key and no date key, whatever
\* bucket it empties; a week key leaves the store only in a step of
\* delete_week, clear_week or delete_past_week.
C20_DeleteActivityKeepsKeys ==
    [][/\ reply'.handler = "delete_activity" =>
              /\ DOMAIN store' = DOMAIN store
              /\ BucketKeys(store') = BucketKeys(store)
       /\ (\E wk \in DOMAIN store : wk \notin DOMAIN store') =>
              reply'.handler \in {"delete_week", "clear_week",
                                 "delete_past_week"}]_vars

\* C20 happens: delete_activity has emptied a bucket, and its date key and
\* week key are still in the store
C20_EmptyBucketKept ==
    /\ reply.handler = "delete_activity"
    /\ reply.kind = "true"
    /\ \E k \in BucketKeys(store) : Bucket(store, k[1], k[2]) = <<>>

(***************************************************************************)
(* Properties of timesheet assembly, checked under SpecAssemble (the chat  *)
(* and the web application) and SpecStore (the web application).           *)
(***************************************************************************)
\* the handlers that assemble a timesheet
GenerateHandlers ==
    {"manager_generate_timesheet", "generate_timesheet",
     "generate_past_week_timesheet"}

\* the week wk holds no activity: the key is absent, or the record has no
\* date key, or every bucket of the record is empty
ZeroActivities(st, wk) == wk \notin DOMAIN st \/ WeekEntries(st[wk]) = 0

\* C21: whenever a generate handler (of the web application, of the chat
\* for the current week, of the chat for a past week) has looked up a week
\* that holds zero activities, it has answered NoData and sent no document.
C21_ZeroActivitiesIsNoData ==
    (/\ reply.handler \in GenerateHandlers
     /\ reply.week # <<>>
     /\ ZeroActivities(store, reply.week[1])) =>
        /\ reply.kind = "no_activities"
        /\ reply.result = <<>>

\* the generate handler has gone past its NoData test
GenerationStarted(rep) ==
    /\ rep.handler \in GenerateHandlers
    /\ rep.kind \notin {"no_activities", "no_week_selected"}

\* C22: whenever the summarizer fails (and the renderer does not) in a
\* generation that has data, of the web application or of the chat for the
\* current or for a past week, a document is sent whose summary is the
\* fallback sentence; the failure is not reported as an error of the
\* generate action.
C22_SummarizerFailureIsMasked ==
    [][/\ \A wk \in WebWeeks :
              (/\ WebGenerateTimesheet(wk, "summarizer_fails")
               /\ GenerationStarted(reply')) =>
                  /\ reply'.kind = "timesheet_sent"
                  /\ reply'.result[1].weekly_summary = FallbackSummary
       /\ \A c \in SpecChats :
              (/\ ChatMessage(c, GenerateTimesheet, "summarizer_fails")
               /\ GenerationStarted(reply')) =>
                  /\ reply'.kind = "timesheet_sent"
                  /\ reply'.result[1].weekly_summary = FallbackSummary]_vars

\* C23: a step in which a generate handler answers (with a document, with
\* NoData, or with the error of a failed summarizer or renderer) leaves the
\* store as it was.
C23_GenerateIsReadOnly ==
    [][reply'.handler \in GenerateHandlers => store' = store]_vars

\* the chat has been sent the timesheet of a past week, and the week is
\* still in the store
C23_PastWeekSentAndKept ==
    /\ reply.handler = "generate_past_week_timesheet"
    /\ reply.kind = "timesheet_sent"
    /\ reply.week # <<>>
    /\ reply.week[1] \in DOMAIN store
    /\ reply.result # <<>>

\* the dates, as ordinals, of the 7 dates of week wk under whose date key
\* the store holds at least one activity
DatesWithActivity(st, wk) ==
    {n \in StrpISO(wk)[1]..(StrpISO(wk)[1] + 6) :
        Bucket(st, wk, StrfISO(n)) # <<>>}

\* C24: the document a generate handler sends for a week has exactly one
\* row for each of the week's 7 dates whose bucket holds an activity, the
\* rows are in Monday..Sunday order, the time-in and time-out of a row are
\* "2:30 PM" and "5:30 PM" when the total hours of its day are above 0 and
\* blank otherwise, and the mentor initials of every row are blank.
C24_OneRowPerDayWithActivity ==
    (reply.handler \in GenerateHandlers /\ reply.result # <<>>) =>
        LET rows == reply.result[1].daily_entries
            wk   == reply.week[1]
            days == DatesWithActivity(store, wk)
            DateOf(i) == StrpUS(rows[i].date)[1]
        IN  /\ Len(rows) = Cardinality(days)
            /\ \A i \in 1..Len(rows) :
                  /\ StrpUS(rows[i].date) # <<>>
                  /\ DateOf(i) \in days
                  /\ rows[i].day = <<Weekday(DateOf(i)), Ord2Ymd(DateOf(i))[2],
                                     Ord2Ymd(DateOf(i))[3]>>
                  /\ \A j \in 1..Len(rows) : i < j => DateOf(i) < DateOf(j)
                  /\ IF SumHours(Bucket(store, wk, StrfISO(DateOf(i)))) > 0
                     THEN rows[i].time_in = TimeIn /\ rows[i].time_out = TimeOut
                     ELSE rows[i].time_in = "" /\ rows[i].time_out = ""
                  /\ rows[i].mentor_initials = ""

\* a document has been sent with two rows, the first with the fixed times
\* and the second with blank times
C24_TimedRowThenBlankRow ==
    /\ reply.handler \in GenerateHandlers
    /\ reply.result # <<>>
    /\ Len(reply.result[1].daily_entries) = 2
    /\ reply.result[1].daily_entries[1].time_in = TimeIn
    /\ reply.result[1].daily_entries[2].time_in = ""

(***************************************************************************)
(* Properties of concurrent calls of add_activity, checked under SpecRace. *)
(***************************************************************************)
\* C25: the save of a call of add_activity writes the activities the call
\* loaded with its own entry appended and nothing else, whatever the file
\* holds by then (the last write wins on the whole file); so when calls
\* interleave their loads and saves an update can be lost, as the state
\* C25_BothSucceededOneStored shows.
C25_LastWriteWins ==
    [][\A r \in Requests :
           RequestSaves(r) =>
               AppendedTo(requests[r].activities, store',
                          WeekKeyOf(StrpISO(requests[r].date_str)[1]),
                          {requests[r].date_str},
                          Entry(ActLabWork, requests[r].hours))]_vars

\* every call has returned True, and the store holds fewer activities than
\* calls were made
C25_BothSucceededOneStored ==
    /\ \A r \in Requests : requests[r].pc = "done"
    /\ TotalEntries(store) < NumRequests

ActivitiesOf(week) ==
    UNION {{<<dk, i>> : i \in 1..Len(week[dk])} : dk \in DOMAIN week}

\* the sum of the hours of the activities named, omitted hours counted as 0
RECURSIVE HoursOf(_, _)
HoursOf(week, named) ==
    IF named = {} THEN 0
    ELSE LET a == CHOOSE x \in named : TRUE
             h == week[a[1]][a[2]].hours
         IN  (IF h = <<>> THEN 0 ELSE h[1]) + HoursOf(week, named \ {a})

\* the handlers that list the weeks
ListHandlers == {"get_all_weeks", "show_past_weeks"}

\* C27: a listing of the weeks (get_all_weeks of the web application, Past
\* Weeks of the chat) has every week key of the store exactly once, newest
\* week first, each with the number of activities of its buckets and the
\* sum of their hours, omitted hours counted as 0.
C27_ListingIsTheStore ==
    (reply.handler \in ListHandlers /\ reply.result # <<>>) =>
        LET weeks == reply.result[1]
        IN  /\ Len(weeks) = Cardinality(DOMAIN store)
            /\ {weeks[i].week_key : i \in 1..Len(weeks)} = DOMAIN store
            /\ \A i \in 1..Len(weeks) : \A j \in 1..Len(weeks) :
                  i < j => StrpISO(weeks[i].week_key)[1]
                               > StrpISO(weeks[j].week_key)[1]
            /\ \A i \in 1..Len(weeks) :
                  weeks[i].week_key \in DOMAIN store =>
                      LET week == store[weeks[i].week_key]
                      IN  /\ weeks[i].total_entries
                                 = Cardinality(ActivitiesOf(week))
                          /\ weeks[i].total_hours
                                 = HoursOf(week, ActivitiesOf(week))

(***************************************************************************)
(* Properties of the backlog flows, checked under Spec.                    *)
(***************************************************************************)
\* C28: every activity a chat writes in the last step of the single-date
\* backlog flow or of the bulk backlog flow is dated, on the day it is
\* written, not after today and not more than 60 days before today.
C28_BackloggedDatesInWindow ==
    [][\A c \in SpecChats :
           (/\ Mode(user_data[c]) \in {"AwaitingBacklogActivity",
                                       "AwaitingBulkWeekActivity"}
            /\ sent' = sent + 1 /\ reply'.chat = c) =>
               \A k \in BucketKeys(store') :
                   Len(Bucket(store', k[1], k[2]))
                       > Len(Bucket(store, k[1], k[2])) =>
                       /\ StrpISO(k[2]) # <<>>
                       /\ StrpISO(k[2])[1] <= now.ord
                       /\ StrpISO(k[2])[1] >= now.ord - BacklogDays]_vars

(***************************************************************************)
(* Properties of the past-week dialog on a store that the web application  *)
(* and the chat delete from, checked under SpecDeletes.                    *)
(***************************************************************************)
\* C29: in Mode AwaitingPastWeekAction with a selected week that is no
\* longer in the store, View This Week, Delete This Week and Generate
\* Timesheet are each answered by their past-week handler, which reports
\* that the week has no activities or is not found, raises nothing and
\* leaves the store unchanged.
C29_MissingWeekIsReported ==
    [][\A c \in SpecChats :
           (/\ Mode(user_data[c]) = "AwaitingPastWeekAction"
            /\ user_data[c].selected_past_week # <<>>
            /\ user_data[c].selected_past_week[1] \notin DOMAIN store
            /\ sent' = sent + 1 /\ reply'.chat = c
            /\ reply'.text \in {ViewThisWeek, DeleteThisWeek,
                                GenerateTimesheet}) =>
               /\ store' = store
               /\ reply'.text = ViewThisWeek =>
                      /\ reply'.handler = "view_specific_week"
                      /\ reply'.kind = "no_activities"
               /\ reply'.text = DeleteThisWeek =>
                      /\ reply'.handler = "delete_past_week"
                      /\ reply'.kind = "week_not_found"
               /\ reply'.text = GenerateTimesheet =>
                      /\ reply'.handler = "generate_past_week_timesheet"
                      /\ reply'.kind = "no_activities"]_vars

\* Delete This Week has been answered "week not found": the selected week
\* had been removed from the store
C29_DeleteOfRemovedWeek ==
    /\ reply.text = DeleteThisWeek
    /\ reply.handler = "delete_past_week"
    /\ reply.kind = "week_not_found"

\* C30: in Mode AwaitingBacklogDate and in Mode AwaitingBulkWeekDate, the
\* date of 2 days ago typed as YYYY-MM-DD, as MM/DD/YYYY or as MM/DD is
\* accepted and stored: as the backlog date, and as the bulk week start
\* (the Monday of its week).
C30_EveryDateFormatAccepted ==
    [][\A c \in SpecChats : \A text \in {Date2Ago, UsDate, UsShortDate} :
           (sent' = sent + 1 /\ reply'.chat = c /\ reply'.text = text) =>
               /\ Mode(user_data[c]) = "AwaitingBacklogDate" =>
                      /\ reply'.kind = "date_stored"
                      /\ user_data'[c].backlog_date = <<Date2Ago>>
               /\ Mode(user_data[c]) = "AwaitingBulkWeekDate" =>
                      /\ reply'.kind = "week_stored"
                      /\ user_data'[c].backlog_week_start
                             = <<WeekKeyOf(Today0 - 2)>>]_vars

(***************************************************************************)
(* Properties of the Mode and the pending fields of a session, checked     *)
(* under Spec.                                                             *)
(***************************************************************************)
\* the dialog flags of a session that are set
FlagsSet(u) ==
    {f \in {"backlog_mode", "entering_backlog_activity", "backlog_week_mode",
            "selecting_past_week", "past_week_action_mode",
            "setting_reminder"} : u[f]}

\* the kinds of the replies that end a flow: its cancellation or its last
\* step
EndKinds ==
    {"cancelled", "logged", "logged_with_hours", "days_backlogged",
     "week_deleted", "week_not_found", "disabled", "reminder_set"}

\* C31: at every moment at most one dialog flag of a session is set, and
\* after a reply that cancels or completes a flow none is set.
C31_ExactlyOneMode ==
    \A c \in SpecChats :
        /\ Cardinality(FlagsSet(user_data[c])) <= 1
        /\ (reply.chat = c /\ reply.kind \in EndKinds) =>
               FlagsSet(user_data[c]) = {}

\* C32: right after the Backlog Week command is handled the bulk flow is at
\* its date step: no week start and no day list is pending.
C32_BacklogWeekStartsAtDateStep ==
    reply.handler = "backlog_week_prompt" =>
        /\ user_data[reply.chat].backlog_week_start = <<>>
        /\ user_data[reply.chat].backlog_days_worked = <<>>

\* the date a text of the bulk date step gives, 0 for a text that gives none
BulkGivenDate(text) ==
    IF text = BulkDateText THEN Ymd2Ord(2026, 1, 6)
    ELSE IF text \in {Date2Ago, UsDate, UsShortDate} THEN Today0 - 2
    ELSE IF text = DateTomorrow THEN Today0 + 1
    ELSE IF text = DateNextWeek THEN Today0 + 7
    ELSE IF text = Date70Ago THEN Today0 - 70
    ELSE IF text = WeekOfPhrase THEN Ymd2Ord(2026, 3, 4)
    ELSE 0

\* u holds the Monday of the week of the date g, and that Monday is not
\* after today nor more than 60 days before today
HoldsMondayOf(u, g, nw) ==
    /\ u.backlog_week_start = <<StrfISO(MondayOf(g))>>
    /\ Weekday(StrpISO(u.backlog_week_start[1])[1]) = 0
    /\ MondayOf(g) <= nw.ord
    /\ nw.ord - MondayOf(g) <= BacklogDays

\* the days before today the date step is tried on: the days of this week
\* and of the next, and the days around the far end of the window
BulkOffsets == (0 - 7)..6 \cup 55..66

\* C33: in Mode AwaitingBulkWeekDate every accepted text (a date of any
\* weekday, in any format, or a "week of <Month> <Day>" phrase) stores as
\* the bulk week start the Monday of the week of the given date, and that
\* Monday is not after today and not more than 60 days before today.
C33_WeekStartIsMondayInWindow ==
    \A c \in SpecChats :
        /\ (/\ reply.chat = c
            /\ reply.handler = "process_backlog_week"
            /\ reply.kind = "week_stored") =>
               /\ BulkGivenDate(reply.text) # 0
               /\ HoldsMondayOf(user_data[c], BulkGivenDate(reply.text), now)
        /\ Mode(user_data[c]) = "AwaitingBulkWeekDate" =>
               \A k \in BulkOffsets :
                   \E o \in {handle_message(user_data[c], store, jobs, now, c,
                                            StrfISO(now.ord - k), "ok")} :
                       o.rep.kind = "week_stored" =>
                           HoldsMondayOf(o.ud, now.ord - k, now)

\* C33 happens: the phrase naming Wednesday 2026-03-04 has been accepted and
\* the Monday 2026-03-02 is the stored bulk week start
C33_PhraseStoredItsMonday ==
    /\ reply.chat = 1
    /\ reply.text = WeekOfPhrase
    /\ reply.kind = "week_stored"
    /\ user_data[1].backlog_week_start = <<StrfISO(Today0 - 3)>>
    /\ Mode(user_data[1]) = "AwaitingBulkWeekDays"

\* the weekdays the tokens of a text name, the text split at white space and
\* at commas; every weekday where the text says "all weekdays"
NamedDays(text) ==
    LET tl   == LowerText(text)
        toks == SeqElems(SplitWs(ReplaceCommas(tl)))
    IN  IF Contains(tl, <<"a","l","l"," ","w","e","e","k","d","a","y","s">>)
        THEN {DayNames[i] : i \in 1..5}
        ELSE {DayNames[i] : i \in {j \in 1..5 : DayKeys(DayNames[j]) \cap toks # {}}}

\* day lists as the user types them
DayPhrases ==
    {MonWedFri, SatSun, ActLabWork,
     <<"A","l","l"," ","w","e","e","k","d","a","y","s">>,
     <<"m"," ","t"," ","w"," ","t","h"," ","f">>,
     <<"M","o","n","d","a","y",",","F","r","i","d","a","y">>,
     <<"t","u","e","s",","," ","t","h","u","r">>,
     <<"m","o","n",","," ","s","m","a","l","l"," ","w","e","e","k">>}

\* C34: in Mode AwaitingBulkWeekDays the day list stored for a text is
\* exactly the set of weekdays its tokens name (full names, abbreviations,
\* m/t/w/th/f), Monday to Friday for "all weekdays"; a text naming no weekday
\* stores nothing, and no weekday that no token names is ever stored.
C34_DaysAreTheNamedOnes ==
    \A c \in SpecChats :
        Mode(user_data[c]) = "AwaitingBulkWeekDays" =>
            \A text \in DayPhrases :
                \E o \in {handle_message(user_data[c], store, jobs, now, c,
                                         text, "ok")} :
                    IF NamedDays(text) = {}
                    THEN /\ o.rep.kind = "days_not_understood"
                         /\ o.ud = user_data[c]
                    ELSE /\ o.rep.kind = "days_stored"
                         /\ o.ud.backlog_days_worked # <<>>
                         /\ SeqElems(o.ud.backlog_days_worked[1])
                                = NamedDays(text)

(***************************************************************************)
(* Order and immutability of the buckets, checked under SpecStore.         *)
(***************************************************************************)
\* every bucket of st0 is in st1 and begins with the entries it had in st0
BucketsExtended(st0, st1) ==
    \A k \in BucketKeys(st0) :
        /\ k \in BucketKeys(st1)
        /\ Len(Bucket(st1, k[1], k[2])) >= Len(Bucket(st0, k[1], k[2]))
        /\ SubSeq(Bucket(st1, k[1], k[2]), 1, Len(Bucket(st0, k[1], k[2])))
               = Bucket(st0, k[1], k[2])

\* C35: add_activity appends its entry at the end of the bucket of the
\* given date under the week key of that date's Monday, and leaves every
\* other bucket and every entry already stored as it was; delete_activity
\* at a valid index i removes exactly the entry at i and keeps the other
\* entries of the bucket in their order; no step other than a deletion
\* changes or removes a stored entry.
C35_BucketsKeepLogOrder ==
    [][/\ \A date_str \in WebDates : \A hours \in WebHours :
              WebAddActivity(date_str, ActLabWork, hours) =>
                  /\ AppendedTo(store, store',
                                WeekKeyOf(StrpISO(date_str)[1]), {date_str},
                                [activity |-> ActLabWork,
                                 hours |-> IF hours = <<0>> THEN <<>>
                                           ELSE hours])
                  /\ BucketsExtended(store, store')
       /\ \A wk \in WebWeeks : \A date_str \in WebDatesOf(wk) :
              \A index \in WebIndexesOf(wk, date_str) :
                  (/\ WebDeleteActivity(wk, date_str, index)
                   /\ reply'.kind = "true") =>
                      /\ index >= 0
                      /\ RemovedAt(store, store', wk, date_str, index)
                      /\ Bucket(store', wk, date_str) =
                             SubSeq(Bucket(store, wk, date_str), 1, index)
                             \o SubSeq(Bucket(store, wk, date_str), index + 2,
                                       Len(Bucket(store, wk, date_str)))
       /\ reply'.handler \notin {"delete_activity", "delete_week"} =>
              BucketsExtended(store, store')]_vars

\* C35 happens: delete_activity has removed one of three entries of a
\* bucket, and the two that differ are left in the order they were logged
C35_TwoLeftInLogOrder ==
    /\ reply.handler = "delete_activity"
    /\ reply.kind = "true"
    /\ \E k \in BucketKeys(store) :
           Bucket(store, k[1], k[2]) =
               <<[activity |-> ActLabWork, hours |-> <<>>],
                 [activity |-> ActLabWork, hours |-> <<150>>]>>

(***************************************************************************)
(* The pending fields of the Modes, checked under SpecPast.                *)
(***************************************************************************)
\* C36: whenever the flag of the activity step of a backlog is set a
\* backlog date is stored, whenever the flag of the week selection is set a
\* non-empty week list is stored, and whenever the flag of the week action
\* is set a selected week is stored; so it is in the Modes
\* AwaitingBacklogActivity, AwaitingPastWeekSelection, AwaitingPastWeekAction.
C36_ModesHaveTheirFields ==
    \A c \in SpecChats :
        /\ user_data[c].entering_backlog_activity =>
               /\ user_data[c].backlog_date # <<>>
               /\ StrpISO(user_data[c].backlog_date[1]) # <<>>
        /\ user_data[c].selecting_past_week =>
               /\ user_data[c].past_weeks_list # <<>>
               /\ Len(user_data[c].past_weeks_list[1]) > 0
        /\ user_data[c].past_week_action_mode =>
               /\ user_data[c].selected_past_week # <<>>
               /\ StrpISO(user_data[c].selected_past_week[1]) # <<>>

\* C36 happens: the second week of the list has been selected, and the
\* session waits for the action on it with the week stored
C36_ActionModeHasItsWeek ==
    /\ reply.chat = 1
    /\ reply.kind = "week_selected"
    /\ Mode(user_data[1]) = "AwaitingPastWeekAction"
    /\ user_data[1].selected_past_week = <<WeekKeyOf(Today0 - 16)>>

(***************************************************************************)
(* A chat that, from some message on, sends nothing but the word cancel.   *)
(* The messages before are those of Spec; BeginCancelling ends them, and   *)
(* from then on the chat sends "cancel" as long as a dialog flag is set.   *)
(* handle_message runs to its end on every message the chat sends, so the  *)
(* step that handles the next "cancel" is taken whenever it stays enabled. *)
(***************************************************************************)
\* the dialog flags of a session
DialogFlags ==
    {"backlog_mode", "entering_backlog_activity", "backlog_week_mode",
     "selecting_past_week", "past_week_action_mode", "setting_reminder"}

\* the most messages of a run: one "cancel" for each flag, and one more
CancelLimit == MaxMsgs + Cardinality(DialogFlags) + 1

BeginCancelling ==
    /\ sent < MaxMsgs
    /\ sent' = MaxMsgs
    /\ UNCHANGED <<store, user_data, jobs, now, reply, d, week_key,
                   week_dates, requests>>

\* the chat sends "cancel" while a dialog flag of its session is set
CancelOnly ==
    \E c \in SpecChats :
        /\ sent >= MaxMsgs
        /\ sent < CancelLimit
        /\ FlagsSet(user_data[c]) # {}
        /\ \E o \in {Handled(c, CancelWord, "ok")} :
               /\ sent' = sent + 1
               /\ user_data' = [user_data EXCEPT ![c] = o.ud]
               /\ store' = o.st
               /\ jobs' = o.jb
               /\ reply' = [chat |-> c, text |-> CancelWord,
                            handler |-> o.rep.handler, kind |-> o.rep.kind,
                            week |-> o.rep.week, result |-> o.rep.result]
        /\ UNCHANGED <<now, d, week_key, week_dates, requests>>

\* the messages before: any of Spec, two fewer than there
Converse == sent < MaxMsgs - 2 /\ Next

NextCancel == Converse \/ BeginCancelling \/ CancelOnly

SpecCancel == InitPast /\ [][NextCancel]_vars /\ WF_vars(CancelOnly)

\* C37: once the chat sends nothing but "cancel", no message adds an entry
\* to the store, and after finitely many messages no dialog flag of the
\* session is set (the Mode is Idle).
C37_CancelLeadsToIdle ==
    /\ [][CancelOnly => store' = store]_vars
    /\ \A c \in SpecChats :
           (sent >= MaxMsgs) ~> (FlagsSet(user_data[c]) = {})

(***************************************************************************)
(* Calls of add_activity for dates of different weeks, checked under       *)
(* SpecRace.                                                               *)
(***************************************************************************)
\* the week key a call of add_activity writes under
RequestWeek(r) == WeekKeyOf(StrpISO(requests[r].date_str)[1])

\* C38: once two calls of add_activity for dates of different weeks have
\* both returned, the store holds the entry of each, however their loads
\* and saves interleaved.
C38_DifferentWeeksBothStored ==
    \A r1, r2 \in Requests :
        (/\ requests[r1].pc = "done" /\ requests[r2].pc = "done"
         /\ RequestWeek(r1) # RequestWeek(r2)) =>
            \A r \in {r1, r2} :
                \E j \in 1..Len(Bucket(store, RequestWeek(r),
                                       requests[r].date_str)) :
                    Bucket(store, RequestWeek(r), requests[r].date_str)[j]
                        = Entry(ActLabWork, requests[r].hours)

(***************************************************************************)
(* The reminder jobs of different chats, checked under SpecSessions.       *)
(***************************************************************************)
\* the reminder jobs scheduled for chat b
JobsOf(jb, b) == {j \in jb : j.chat_id = b}

\* C39: a step that handles a message of one chat (setting or disabling its
\* reminder included) neither removes nor replaces the reminder job
\* scheduled for another chat.
C39_ReminderIsPerChat ==
    [][\A b \in Chats :
           (sent' = sent + 1 /\ reply'.chat # b) =>
               JobsOf(jobs', b) = JobsOf(jobs, b)]_vars

(***************************************************************************)
(* The menu commands that only read, checked under Spec.                   *)
(***************************************************************************)
ReadOnlyLabels == {LogToday, ViewWeek, MonthCalendar, MonthlyHours}

\* C40: in every Mode, a step that handles Log Today, View Week, Month
\* Calendar or Monthly Hours leaves the store, the flags and pending fields
\* of every session (so the Mode) and the reminder jobs as they were.
C40_ReadOnlyCommands ==
    [][\A c \in SpecChats : \A text \in ReadOnlyLabels :
           ChatMessage(c, text, "ok") =>
               /\ store' = store
               /\ user_data' = user_data
               /\ Mode(user_data'[c]) = Mode(user_data[c])
               /\ jobs' = jobs
               /\ reply'.handler \in {"handle_message", "view_week",
                                      "show_month_calendar",
                                      "show_monthly_hours"}]_vars

\* C40 happens: View Week has been answered with the week's activities in
\* the middle of a bulk backlog, which still waits for its days
C40_ViewWeekInsideBulkBacklog ==
    /\ reply.chat = 1
    /\ reply.text = ViewWeek
    /\ reply.kind = "week_view"
    /\ Mode(user_data[1]) = "AwaitingBulkWeekDays"
    /\ user_data[1].backlog_week_start # <<>>
    /\ store # EmptyDict

====
